---- MODULE Spec2Model ----
(***************************************************************************)
(* A model of the object engine and clone pipeline of codecrafters-git:    *)
(* the loose-object codec (object.rs), the pkt-line iterator and the pack  *)
(* parser with ref-delta reconstruction (packet.rs) and the clone driver   *)
(* (main.rs).  Bytes are integers 0..255, byte strings are sequences.       *)
(***************************************************************************)
EXTENDS Integers, Sequences, FiniteSets, TLC

VARIABLES
    files,      \* the file system: resolved path -> bytes
    dirs,       \* the file system: set of resolved directory paths
    store_res,  \* result of the last object-store operation
    pl_items,   \* pkt-line: the list that was encoded
    pl_stream,  \* PacketLineIterator.stream
    pl_out,     \* pkt-line: the packets yielded so far
    pl_st,      \* pkt-line: "iter", "none" once next() returned None, "panic"
    hd_raw,     \* pack object header under decoding
    hd_res,     \* result of decoding hd_raw
    dl_base,    \* delta: the base object
    dl_instrs,  \* delta: the instructions the delta buffer was built from
    dl_tgt,     \* delta: the target size the delta buffer declares
    dl_res,     \* delta: result of calculate_delta
    pk_entries, \* pack: the entries the response was built from
    pk_raw,     \* pack: the response bytes given to Packet::try_from
    pk_ptr,     \* pack: ptr of the parse loop
    pk_objects, \* pack: packet.objects, hash -> object
    pk_st,      \* pack: "start", "loop", then "ok", "err" or "panic"
    pk_log,     \* pack: what each pass of the loop decoded, in order
    cl_driver,  \* clone: "main" (main.rs git_clone) or "legacy" (packet.rs)
    cl_dst,     \* clone: the destination path
    cl_remote,  \* clone: the two responses the remote gives
    cl_pc,      \* clone: position in the steps of git_clone, from 1
    cl_st,      \* clone: "run", then "ok", "err" or "panic"
    cl_refs,    \* clone: refs, pairs of name and hash
    cl_head,    \* clone: head_hash
    cl_objects, \* clone: packet.objects, hash -> object
    cl_todo,    \* clone: the objects the persist loop has yet to visit
    wt_dir,     \* snapshot: the working directory write_tree is run in
    plb_wants,  \* request builder: PacketLineBuilder.wants
    plb_data,   \* request builder: the data of the PacketLine build returned
    plb_pc      \* request builder: "new" until build has consumed the builder

vars == <<files, dirs, store_res, pl_items, pl_stream, pl_out, pl_st,
          hd_raw, hd_res, dl_base, dl_instrs, dl_tgt, dl_res,
          pk_entries, pk_raw, pk_ptr, pk_objects, pk_st, pk_log,
          cl_driver, cl_dst, cl_remote, cl_pc, cl_st, cl_refs, cl_head,
          cl_objects, cl_todo, wt_dir,
         plb_wants, plb_data, plb_pc>>
fsVars == <<files, dirs, store_res>>
plVars == <<pl_items, pl_stream, pl_out, pl_st>>
hdVars == <<hd_raw, hd_res>>
dlVars == <<dl_base, dl_instrs, dl_tgt, dl_res>>
pkVars == <<pk_entries, pk_raw, pk_ptr, pk_objects, pk_st, pk_log>>
\* what a clone is given and never writes
clEnv == <<cl_driver, cl_dst, cl_remote, store_res>>
clVars == <<cl_driver, cl_dst, cl_remote, cl_pc, cl_st, cl_refs, cl_head,
            cl_objects, cl_todo>>
wtVars == <<wt_dir>>
plbVars == <<plb_wants, plb_data, plb_pc>>

(***************************************************************************)
(* Bounds of the model.                                                    *)
(***************************************************************************)
MaxFiles == 2
MaxItems == 3
MaxCont == 2
MaxInstr == 2
MaxEntries == 2

(***************************************************************************)
(* Bytes and text.                                                         *)
(***************************************************************************)
NUL == 0
SP == 32
LF == 10

Pow2(n) == 2 ^ n

\* x << n on an unsigned integer that does not overflow
Shl(x, n) == x * Pow2(n)

\* x >> n
Shr(x, n) == x \div Pow2(n)

Min(a, b) == IF a < b THEN a ELSE b

\* s[from..], 0-based like a Rust slice
Drop(s, from) == SubSeq(s, from + 1, Len(s))

\* s[..to], 0-based and exclusive like a Rust slice
Take(s, to) == SubSeq(s, 1, to)

\* s[from..to], 0-based; the caller guarantees from <= to <= Len(s)
Slice(s, from, to) == SubSeq(s, from + 1, to)

\* str::from_utf8 succeeds: exact for strings of bytes below 128, the only
\* ones that are valid among those the model builds
IsUtf8(s) == \A i \in 1..Len(s) : s[i] < 128

\* iter().position(|c| *c == b): 0-based index of the first b, or -1
Position(s, b) ==
    LET at == {i \in 1..Len(s) : s[i] \in b}
    IN  IF at = {} THEN -1 ELSE (CHOOSE i \in at : \A j \in at : i <= j) - 1

\* format!("{}", n) for an unsigned integer
RECURSIVE Decimal(_)
Decimal(n) ==
    IF n < 10 THEN <<48 + n>> ELSE Decimal(n \div 10) \o <<48 + (n % 10)>>

IsDigit(b) == b >= 48 /\ b <= 57

RECURSIVE DigitsValue(_)
DigitsValue(s) ==
    IF s = <<>> THEN 0 ELSE DigitsValue(Take(s, Len(s) - 1)) * 10 + (s[Len(s)] - 48)

\* str::parse::<usize>(): digits with an optional leading '+'
ParseUsize(s) ==
    LET d == IF s # <<>> /\ s[1] = 43 THEN Drop(s, 1) ELSE s
    IN  IF d # <<>> /\ \A i \in 1..Len(d) : IsDigit(d[i])
        THEN [ok |-> TRUE, val |-> DigitsValue(d)]
        ELSE [ok |-> FALSE, val |-> 0]

HexDigit(n) == IF n < 10 THEN 48 + n ELSE 87 + n

\* hex::encode / display_hex: two lowercase hex digits per byte
RECURSIVE display_hex(_)
display_hex(h) ==
    IF h = <<>> THEN <<>>
    ELSE <<HexDigit(h[1] \div 16), HexDigit(h[1] % 16)>> \o display_hex(Drop(h, 1))

\* the value of one hex digit as from_str_radix(_, 16) reads it, or -1
HexValue(c) ==
    IF c >= 48 /\ c <= 57 THEN c - 48
    ELSE IF c >= 97 /\ c <= 102 THEN c - 87
    ELSE IF c >= 65 /\ c <= 70 THEN c - 55
    ELSE -1

RECURSIVE HexNumber(_)
HexNumber(s) ==
    IF s = <<>> THEN 0 ELSE HexNumber(Take(s, Len(s) - 1)) * 16 + HexValue(s[Len(s)])

\* u32::from_str_radix(s, 16), for a string of at most 7 characters
FromStrRadix16(s) ==
    LET d == IF s # <<>> /\ s[1] = 43 THEN Drop(s, 1) ELSE s
    IN  IF d # <<>> /\ \A i \in 1..Len(d) : HexValue(d[i]) >= 0
        THEN [ok |-> TRUE, val |-> HexNumber(d)]
        ELSE [ok |-> FALSE, val |-> 0]

(***************************************************************************)
(* Objects: kind, framing, hash.                                           *)
(***************************************************************************)
ObjectKind == {"blob", "tree", "commit"}

\* impl Display for ObjectKind
KindName(kind) ==
    CASE kind = "blob" -> <<98, 108, 111, 98>>
      [] kind = "tree" -> <<116, 114, 101, 101>>
      [] kind = "commit" -> <<99, 111, 109, 109, 105, 116>>

\* impl TryFrom<&[u8]> for ObjectKind
KindFromBytes(b) ==
    IF \E k \in ObjectKind : KindName(k) = b
    THEN [ok |-> TRUE, kind |-> CHOOSE k \in ObjectKind : KindName(k) = b]
    ELSE [ok |-> FALSE, kind |-> "blob"]

Object(kind, body) == [kind |-> kind, body |-> body]

\* format!("{} {}\0", kind, body.len()) followed by the body
Frame(obj) == KindName(obj.kind) \o <<SP>> \o Decimal(Len(obj.body)) \o <<NUL>> \o obj.body

HashLen == 20

\* SHA-1 itself is an external primitive; the model keeps what the program
\* relies on: 20 bytes, a function of every byte hashed and of their order,
\* no collision among the inputs of the model.  Three polynomial checksums
\* are run over the input and spread over the 20 bytes.
\* One checksum over bytes[lo..hi], the fold a -> (a * m + byte + 1) % p
\* from the left, as the pair <<what the fold makes of 0, m^length>>; it is
\* computed by halves.
RECURSIVE Lane(_, _, _, _, _)
Lane(bytes, lo, hi, m, p) ==
    IF lo > hi THEN <<0, 1>>
    ELSE IF lo = hi THEN <<(bytes[lo] + 1) % p, m % p>>
    ELSE LET mid == (lo + hi) \div 2
             l == Lane(bytes, lo, mid, m, p)
             r == Lane(bytes, mid + 1, hi, m, p)
         IN  <<(l[1] * r[2] + r[1]) % p, (l[2] * r[2]) % p>>

\* the fold over all of bytes, started from init
Fold(bytes, init, m, p) ==
    LET f == Lane(bytes, 1, Len(bytes), m, p) IN (init * f[2] + f[1]) % p

Lanes(bytes) ==
    <<Fold(bytes, 1, 257, 32749), Fold(bytes, 2, 263, 32719), Fold(bytes, 3, 269, 32717)>>

Sha1(bytes) ==
    LET l == Lanes(bytes)
    IN  [i \in 1..HashLen |->
            CASE i = 1 -> l[1] % 256
              [] i = 2 -> l[1] \div 256
              [] i = 3 -> l[2] % 256
              [] i = 4 -> l[2] \div 256
              [] i = 5 -> l[3] % 256
              [] i = 6 -> l[3] \div 256
              [] OTHER -> (l[1] * i + l[2] * (i + 1) + l[3] * (i + 2)) % 256]

\* The bytes Object::hash feeds to the hasher; the mutant drops the kind.
HashInputNoKind(obj) == Decimal(Len(obj.body)) \o <<NUL>> \o obj.body

HashInput(obj) == Frame(obj)

\* Object::hash
hash(obj) == Sha1(HashInput(obj))

(***************************************************************************)
(* zlib, as used with Compression::none(): a stream of one stored block.   *)
(***************************************************************************)
\* Over bytes[lo..hi], by halves: the sum of the bytes, and the sum of the
\* running sums of the bytes
RECURSIVE Adler(_, _, _)
Adler(bytes, lo, hi) ==
    IF lo > hi THEN <<0, 0>>
    ELSE IF lo = hi THEN <<bytes[lo], bytes[lo]>>
    ELSE LET mid == (lo + hi) \div 2
             l == Adler(bytes, lo, mid)
             r == Adler(bytes, mid + 1, hi)
         IN  <<(l[1] + r[1]) % 65521, (l[2] + (hi - mid) * l[1] + r[2]) % 65521>>

\* Adler-32, big-endian: a = 1 + the sum of the bytes, b = the sum of the
\* values a takes, both modulo 65521
Adler32(bytes) ==
    LET s == Adler(bytes, 1, Len(bytes))
        a == (1 + s[1]) % 65521
        b == (Len(bytes) + s[2]) % 65521
    IN  <<b \div 256, b % 256, a \div 256, a % 256>>

ZlibEncode(raw) ==
    LET n == Len(raw)
    IN  <<120, 1, 1, n % 256, n \div 256, 255 - (n % 256), 255 - (n \div 256)>>
        \o raw \o Adler32(raw)

\* Decodes the zlib stream at the head of s: the data and the number of
\* bytes of s the stream takes (what cursor.position() returns).
ZlibDecode(s) ==
    LET bad == [ok |-> FALSE, data |-> <<>>, used |-> 0]
    IN  IF Len(s) < 11 \/ s[1] # 120 \/ s[2] # 1 \/ s[3] # 1 THEN bad
        ELSE LET n == s[4] + 256 * s[5]
             IN  IF s[6] # 255 - s[4] \/ s[7] # 255 - s[5] \/ Len(s) < 11 + n THEN bad
                 ELSE LET data == Slice(s, 7, 7 + n)
                      IN  IF Slice(s, 7 + n, 11 + n) # Adler32(data) THEN bad
                          ELSE [ok |-> TRUE, data |-> data, used |-> 11 + n]

(***************************************************************************)
(* The file system.  A path is a sequence of components, each a byte       *)
(* string; a "." component names the directory it stands in.               *)
(***************************************************************************)
DOT == <<46>>
DOT_GIT == <<46, 103, 105, 116>>
OBJECTS == <<111, 98, 106, 101, 99, 116, 115>>
OUT == <<111, 117, 116>>

RECURSIVE Resolve(_)
Resolve(path) ==
    IF path = <<>> THEN <<>>
    ELSE IF path[1] = DOT THEN Resolve(Drop(path, 1))
    ELSE <<path[1]>> \o Resolve(Drop(path, 1))

\* PathBuf::join for relative paths
Join(a, b) == a \o b

\* Path::parent
Parent(path) == Take(path, Len(path) - 1)

\* every directory create_dir_all(path) makes sure exists
Ancestors(path) == {Take(Resolve(path), n) : n \in 1..Len(Resolve(path))}

FileExists(fs, path) == Resolve(path) \in DOMAIN fs

WriteFile(fs, path, bytes) ==
    [p \in DOMAIN fs \cup {Resolve(path)} |-> IF p = Resolve(path) THEN bytes ELSE fs[p]]

\* Object::path_from_hex: .git/objects/<hex[..2]>/<hex[2..]>
path_from_hex(hex) == <<DOT_GIT, OBJECTS, Take(hex, 2), Drop(hex, 2)>>

\* Object::path
path(h) == path_from_hex(display_hex(h))

(***************************************************************************)
(* The loose-object codec (object.rs).                                     *)
(***************************************************************************)
\* BufRead::read_until(delim): the bytes up to and including the first
\* delim, or all of them when there is none
ReadUntil(data, delim) ==
    LET p == Position(data, {delim})
    IN  IF p < 0 THEN data ELSE Take(data, p + 1)

\* The bytes persist_in writes: the zlib stream of the framed object; the
\* mutant writes the body without its frame.
PersistedBytesNoFrame(obj) == ZlibEncode(obj.body)

PersistedBytes(obj) == ZlibEncode(Frame(obj))

\* Where persist_in writes
ObjectPath(obj, dst) == Join(dst, path(hash(obj)))

\* Object::persist_in(dst).  io_ok = FALSE is a failing create_dir_all.
persist_in(obj, dst, fs, ds, io_ok) ==
    IF ~io_ok
    THEN [ok |-> FALSE, hash |-> <<>>, files |-> fs, dirs |-> ds]
    ELSE [ok |-> TRUE, hash |-> hash(obj),
          files |-> WriteFile(fs, ObjectPath(obj, dst), PersistedBytes(obj)),
          dirs |-> ds \cup Ancestors(Parent(ObjectPath(obj, dst)))]

\* Object::persist
persist(obj, fs, ds, io_ok) == persist_in(obj, <<DOT>>, fs, ds, io_ok)

\* Object::new_object_from: st is "ok", "err" (an Err is returned) or
\* "panic" (a slice index out of range)
new_object_from(raw) ==
    LET z == ZlibDecode(raw)
        none == Object("blob", <<>>)
        kbuf == ReadUntil(z.data, SP)
        rest1 == Drop(z.data, Len(kbuf))
        kind == KindFromBytes(Take(kbuf, Len(kbuf) - 1))
        sbuf == ReadUntil(rest1, NUL)
        rest2 == Drop(rest1, Len(sbuf))
        size == ParseUsize(Take(sbuf, Len(sbuf) - 1))
    IN  IF ~z.ok THEN [st |-> "err", obj |-> none]
        ELSE IF kbuf = <<>> THEN [st |-> "panic", obj |-> none]
        ELSE IF ~kind.ok THEN [st |-> "err", obj |-> none]
        ELSE IF sbuf = <<>> THEN [st |-> "panic", obj |-> none]
        ELSE IF ~size.ok THEN [st |-> "err", obj |-> none]
        ELSE IF Len(rest2) < size.val THEN [st |-> "err", obj |-> none]
        ELSE [st |-> "ok", obj |-> Object(kind.kind, Take(rest2, size.val))]

\* Object::load: the object file is looked up under ./.git/objects
load(hex, fs) ==
    IF ~FileExists(fs, path_from_hex(hex))
    THEN [st |-> "err", obj |-> Object("blob", <<>>)]
    ELSE new_object_from(fs[Resolve(path_from_hex(hex))])

(***************************************************************************)
(* The object store under persist and load.                                *)
(***************************************************************************)
\* "hi \0git\n\0 ": ten bytes, a space and a NUL among them
TenBytes == <<104, 105, SP, NUL, 103, 105, 116, LF, NUL, SP>>
StoreBodies == {<<>>, TenBytes}
StoreObjects == {Object(k, b) : k \in ObjectKind, b \in StoreBodies}
Roots == {<<DOT>>, <<OUT>>}

EmptyFs == [p \in {} |-> <<>>]

StoreInit ==
    /\ files = EmptyFs
    /\ dirs = {}
    /\ store_res = [op |-> "none"]

PersistIn(obj, dst, io_ok) ==
    \E r \in {persist_in(obj, dst, files, dirs, io_ok)} :
        /\ Cardinality(DOMAIN r.files) <= MaxFiles
        /\ files' = r.files
        /\ dirs' = r.dirs
        /\ store_res' = [op |-> "persist", obj |-> obj, dst |-> dst,
                         ok |-> r.ok, hash |-> r.hash,
                         existed |-> FileExists(files, ObjectPath(obj, dst))]

Load(obj) ==
    \E r \in {load(display_hex(hash(obj)), files)} :
        /\ store_res' = [op |-> "load", obj |-> obj, st |-> r.st, got |-> r.obj]
        /\ UNCHANGED <<files, dirs>>

StoreNext ==
    \/ \E obj \in StoreObjects, dst \in Roots, io_ok \in BOOLEAN :
          PersistIn(obj, dst, io_ok) /\ UNCHANGED <<plVars, hdVars, dlVars, pkVars, clVars, wtVars, plbVars>>
    \/ \E obj \in StoreObjects : Load(obj) /\ UNCHANGED <<plVars, hdVars, dlVars, pkVars, clVars, wtVars, plbVars>>

IdleFs == files = EmptyFs /\ dirs = {} /\ store_res = [op |-> "none"]
IdlePl == pl_items = <<>> /\ pl_stream = <<>> /\ pl_out = <<>> /\ pl_st = "idle"
IdleHd == hd_raw = <<>> /\ hd_res = [st |-> "none"]
IdleDl ==
    /\ dl_base = [kind |-> "blob", body |-> <<>>]
    /\ dl_instrs = <<>>
    /\ dl_tgt = 0
    /\ dl_res = [st |-> "none"]
IdleWt == wt_dir = [readable |-> TRUE, entries |-> <<>>]
IdlePlb == plb_wants = <<>> /\ plb_data = <<>> /\ plb_pc = "new"
IdleCl ==
    /\ cl_driver = "none"
    /\ cl_dst = <<>>
    /\ cl_remote = [advert |-> <<>>, pack |-> <<>>]
    /\ cl_pc = 0
    /\ cl_st = "idle"
    /\ cl_refs = <<>>
    /\ cl_head = <<>>
    /\ cl_objects = <<>>
    /\ cl_todo = {}
IdlePk ==
    /\ pk_entries = <<>>
    /\ pk_raw = <<>>
    /\ pk_ptr = 0
    /\ pk_objects = <<>>
    /\ pk_st = "idle"
    /\ pk_log = <<>>

InitStore == StoreInit /\ IdlePl /\ IdleHd /\ IdleDl /\ IdlePk /\ IdleCl /\ IdleWt /\ IdlePlb

SpecStore == InitStore /\ [][StoreNext]_vars

C2_AppendOnlyIdempotent ==
    [][ /\ \A p \in DOMAIN files : p \in DOMAIN files' /\ files'[p] = files[p]
        /\ (store_res'.op = "persist" /\ store_res'.ok)
           => /\ Resolve(Join(store_res'.dst, path(store_res'.hash))) \in DOMAIN files'
              /\ store_res'.existed => files' = files ]_vars

\* C2 witness: an object was persisted again while another object was in the
\* store too.
C2_Witness ==
    /\ store_res.op = "persist"
    /\ store_res.ok
    /\ store_res.existed
    /\ Cardinality(DOMAIN files) = 2

(***************************************************************************)
(* Pkt-lines (packet.rs).                                                  *)
(***************************************************************************)
\* format!("{:04x}", n) for n < 65536
Hex4(n) ==
    <<HexDigit(n \div 4096), HexDigit((n \div 256) % 16),
      HexDigit((n \div 16) % 16), HexDigit(n % 16)>>

\* The encoding of one item as a server sends it: 0000 for a flush (the
\* empty payload), else 4 hex digits of the payload length + 4, then the
\* payload.
PktEncode(payload) ==
    IF payload = <<>> THEN Hex4(0) ELSE Hex4(Len(payload) + 4) \o payload

RECURSIVE PktEncodeAll(_)
PktEncodeAll(items) ==
    IF items = <<>> THEN <<>>
    ELSE PktEncode(items[1]) \o PktEncodeAll(Drop(items, 1))

\* The test that rejects a length prefix the stream cannot hold
LengthExceeds(len, avail) == len + 4 > avail

\* impl TryFrom<&[u8]> for PacketLine
PacketLine_try_from(value) ==
    LET len == FromStrRadix16(Take(value, 4))
    IN  IF Len(value) < 4 THEN [st |-> "err", data |-> <<>>]
        ELSE IF ~len.ok THEN [st |-> "err", data |-> <<>>]
        ELSE IF LengthExceeds(len.val, Len(value)) THEN [st |-> "err", data |-> <<>>]
        ELSE IF len.val = 0 THEN [st |-> "ok", data |-> <<>>]
        ELSE IF len.val < 4 THEN [st |-> "panic", data |-> <<>>]
        ELSE [st |-> "ok", data |-> Slice(value, 4, len.val)]

\* PacketLineIterator::next: the packet and the stream left, or None
PacketLineIterator_next(stream) ==
    LET p == PacketLine_try_from(stream)
    IN  IF p.st = "ok"
        THEN [st |-> "some", data |-> p.data, stream |-> Drop(stream, Len(p.data) + 4)]
        ELSE [st |-> IF p.st = "err" THEN "none" ELSE "panic",
              data |-> <<>>, stream |-> stream]

\* Collects an iterator to its end (what a for loop over it sees).
RECURSIVE PacketLines(_)
PacketLines(stream) ==
    LET n == PacketLineIterator_next(stream)
    IN  IF n.st = "some" THEN <<n.data>> \o PacketLines(n.stream) ELSE <<>>

\* The items of the model: the flush packet and three payloads.
PktItems == {<<>>, <<97>>, <<100, 111, 110, 101, LF>>, <<48, 48, 48, 48, 48, 48, 48, 48, 48, 48, 48, 48>>}

RECURSIVE SeqsUpTo(_, _)
SeqsUpTo(S, n) ==
    IF n = 0 THEN {<<>>}
    ELSE SeqsUpTo(S, n - 1) \cup {Append(q, x) : q \in {r \in SeqsUpTo(S, n - 1) : Len(r) = n - 1}, x \in S}

PktInit ==
    /\ pl_items \in SeqsUpTo(PktItems, MaxItems)
    /\ pl_stream = PktEncodeAll(pl_items)
    /\ pl_out = <<>>
    /\ pl_st = "iter"

PktNext ==
    /\ pl_st = "iter"
    /\ \E n \in {PacketLineIterator_next(pl_stream)} :
          /\ pl_stream' = n.stream
          /\ pl_out' = IF n.st = "some" THEN Append(pl_out, n.data) ELSE pl_out
          /\ pl_st' = IF n.st = "some" THEN "iter" ELSE n.st
    /\ UNCHANGED <<pl_items, fsVars, hdVars, dlVars, pkVars, clVars, wtVars, plbVars>>

InitPkt == PktInit /\ IdleFs /\ IdleHd /\ IdleDl /\ IdlePk /\ IdleCl /\ IdleWt /\ IdlePlb

SpecPkt == InitPkt /\ [][PktNext]_vars

\* C3 (as stated): when the iteration over the encoding of a list has ended,
\* exactly that list was yielded, flushes as empty payloads, and fewer than
\* 4 bytes of the stream remain.
C3_PktRoundTrip ==
    pl_st # "iter" => (pl_st = "none" /\ pl_out = pl_items /\ Len(pl_stream) < 4)

(***************************************************************************)
(* Pack object headers (packet.rs, Packet::try_from).                      *)
(***************************************************************************)
\* raw[i] of a Rust slice, 0-based; the caller checks InRange first
At(raw, i) == raw[i + 1]

InRange(raw, i) == i >= 0 /\ i < Len(raw)

\* impl TryFrom<u8> for ObjectType
ObjectType_try_from(value) ==
    CASE value = 1 -> [ok |-> TRUE, type |-> "Commit"]
      [] value = 2 -> [ok |-> TRUE, type |-> "Tree"]
      [] value = 3 -> [ok |-> TRUE, type |-> "Blob"]
      [] value = 4 -> [ok |-> TRUE, type |-> "Tag"]
      [] value = 6 -> [ok |-> TRUE, type |-> "OfsDelta"]
      [] value = 7 -> [ok |-> TRUE, type |-> "RefDelta"]
      [] OTHER -> [ok |-> FALSE, type |-> "none"]

\* What the size loop adds to shift_count per continuation byte
ShiftStep == 8

\* The loop over the continuation bytes of a header: ptr is at a byte whose
\* MSB announced another one.
RECURSIVE SizeLoop(_, _, _, _)
SizeLoop(raw, ptr, obj_len, shift_count) ==
    IF ~InRange(raw, ptr + 1)
    THEN [st |-> "panic", obj_len |-> obj_len, ptr |-> ptr + 1]
    ELSE LET b == At(raw, ptr + 1)
             len2 == obj_len + Shl(b % 128, shift_count)
         IN  IF b >= 128 THEN SizeLoop(raw, ptr + 1, len2, shift_count + ShiftStep)
             ELSE [st |-> "ok", obj_len |-> len2, ptr |-> ptr + 1]

\* The header of the entry at raw[ptr]: its type, its size and the position
\* after it.  st is "err" for an unknown type code and "panic" when the
\* header runs past the end of raw.
ObjectHeader(raw, ptr) ==
    LET b == At(raw, ptr)
        t == ObjectType_try_from((b % 128) \div 16)
        r == IF b >= 128 THEN SizeLoop(raw, ptr, b % 16, 4)
             ELSE [st |-> "ok", obj_len |-> b % 16, ptr |-> ptr]
    IN  IF ~t.ok THEN [st |-> "err", type |-> "none", obj_len |-> 0, ptr |-> ptr]
        ELSE [st |-> r.st, type |-> t.type, obj_len |-> r.obj_len, ptr |-> r.ptr + 1]

\* The header bytes of the model: first bytes of every type with and
\* without a continuation, and continuation bytes.
HeaderBytes == {0, 1, 127, 128, 129, 255, 18, 149, 191, 223, 5, 240}

NonEmptySeqsUpTo(S, n) == SeqsUpTo(S, n) \ {<<>>}

HdInit ==
    /\ hd_raw \in NonEmptySeqsUpTo(HeaderBytes, MaxCont + 1)
    /\ hd_res = [st |-> "none"]

HdDecode ==
    /\ hd_res.st = "none"
    /\ hd_res' = ObjectHeader(hd_raw, 0)
    /\ UNCHANGED <<hd_raw, fsVars, plVars, dlVars, pkVars, clVars, wtVars, plbVars>>

InitHeader == HdInit /\ IdleFs /\ IdlePl /\ IdleDl /\ IdlePk /\ IdleCl /\ IdleWt /\ IdlePlb

SpecHeader == InitHeader /\ [][HdDecode]_vars

\* The size a header declares: the low 4 bits of the first byte, then 7
\* bits per continuation byte, shifted left by 4, 11, 18, ...
RECURSIVE DeclaredSize(_, _, _)
DeclaredSize(raw, i, shift) ==
    IF i > Len(raw) THEN 0
    ELSE Shl(raw[i] % 128, shift)
         + (IF raw[i] >= 128 THEN DeclaredSize(raw, i + 1, shift + 7) ELSE 0)

\* C4 (as stated): the decoded size is size_low combined with the low 7
\* bits of each continuation byte shifted by 4, 11, 18, ...
C4_HeaderSize ==
    hd_res.st = "ok"
    => hd_res.obj_len = (hd_raw[1] % 16)
                        + (IF hd_raw[1] >= 128 THEN DeclaredSize(hd_raw, 2, 4) ELSE 0)

(***************************************************************************)
(* Ref-delta reconstruction (packet.rs, calculate_delta).                  *)
(***************************************************************************)
\* Skips one variable-length size: the position after its last byte, or -1
\* when the buffer ends first (an index out of range)
RECURSIVE SkipSize(_, _)
SkipSize(raw, ptr) ==
    IF ~InRange(raw, ptr) THEN -1
    ELSE IF At(raw, ptr) >= 128 THEN SkipSize(raw, ptr + 1)
    ELSE ptr + 1

\* The for loop of a copy instruction over n selector bits: each set bit
\* takes the next byte of raw, shifted by 0, 8, 16, ...  val is -1 when raw
\* ends first.
RECURSIVE Assemble(_, _, _, _, _, _)
Assemble(raw, ptr, opcode, n, shift_amount, val) ==
    IF n = 0 THEN [val |-> val, ptr |-> ptr]
    ELSE IF opcode % 2 = 1
    THEN IF ~InRange(raw, ptr) THEN [val |-> -1, ptr |-> ptr]
         ELSE Assemble(raw, ptr + 1, opcode \div 2, n - 1, shift_amount + 8,
                       val + Shl(At(raw, ptr), shift_amount))
    ELSE Assemble(raw, ptr, opcode \div 2, n - 1, shift_amount + 8, val)

\* The number of bytes a copy instruction copies, from its assembled size
CopyLen(len) == len

\* The kind of the object calculate_delta returns
DeltaKind(base_object) == "blob"

\* The instruction loop: the bytes built from raw[ptr..] against the base
\* body, or a panic (an index out of range)
RECURSIVE DeltaLoop(_, _, _, _)
DeltaLoop(raw, ptr, base_body, obj_raw) ==
    IF ptr >= Len(raw) THEN [st |-> "ok", body |-> obj_raw]
    ELSE LET instruction == At(raw, ptr)
         IN  IF instruction >= 128
             THEN LET o == Assemble(raw, ptr + 1, instruction % 16, 4, 0, 0)
                      l == Assemble(raw, o.ptr, (instruction \div 16) % 8, 3, 0, 0)
                      len == CopyLen(l.val)
                  IN  IF o.val < 0 \/ l.val < 0 \/ o.val + len > Len(base_body)
                      THEN [st |-> "panic", body |-> obj_raw]
                      ELSE DeltaLoop(raw, l.ptr, base_body,
                                     obj_raw \o Slice(base_body, o.val, o.val + len))
             ELSE LET nbytes == instruction
                  IN  IF ptr + 1 + nbytes > Len(raw)
                      THEN [st |-> "panic", body |-> obj_raw]
                      ELSE DeltaLoop(raw, ptr + 1 + nbytes, base_body,
                                     obj_raw \o Slice(raw, ptr + 1, ptr + 1 + nbytes))

NoObject == [kind |-> "blob", body |-> <<>>]

\* calculate_delta(raw, obj_len, packet): raw starts at the 20-byte base
\* hash, objects is packet.objects.  st is "ok", "err" or "panic".
calculate_delta(raw, obj_len, objects) ==
    LET base_hash == Take(raw, HashLen)
        z == ZlibDecode(Drop(raw, HashLen))
        buf == z.data
        p1 == SkipSize(buf, 0)
        p2 == SkipSize(buf, p1)
        bad(st) == [st |-> st, obj |-> NoObject, nbytes |-> 0]
    IN  IF Len(raw) < HashLen THEN bad("panic")
        ELSE IF ~z.ok THEN bad("err")
        ELSE IF obj_len # Len(buf) THEN bad("panic")
        ELSE IF p1 < 0 \/ p2 < 0 THEN bad("panic")
        ELSE IF base_hash \notin DOMAIN objects THEN bad("err")
        ELSE LET base_object == objects[base_hash]
                 r == DeltaLoop(buf, p2, base_object.body, <<>>)
             IN  IF r.st # "ok" THEN bad(r.st)
                 ELSE [st |-> "ok",
                       obj |-> Object(DeltaKind(base_object), r.body),
                       nbytes |-> z.used + HashLen]

(***************************************************************************)
(* Delta buffers as a server builds them.                                  *)
(***************************************************************************)
\* a size as little-endian groups of 7 bits, every byte but the last with
\* its MSB set
RECURSIVE Varint(_)
Varint(n) == IF n < 128 THEN <<n>> ELSE <<128 + (n % 128)>> \o Varint(n \div 128)

\* the bytes of v, least significant first, that are not zero, and the
\* selector bits naming them; zero forces the lowest byte to be written
\* even when it is 0
RECURSIVE FieldBytes(_, _, _, _)
FieldBytes(v, n, bit, zero) ==
    IF n = 0 THEN [bits |-> 0, bytes |-> <<>>]
    ELSE LET r == FieldBytes(v \div 256, n - 1, bit * 2, FALSE)
         IN  IF v % 256 # 0 \/ zero
             THEN [bits |-> bit + r.bits, bytes |-> <<v % 256>> \o r.bytes]
             ELSE r

Copy(off, size, zero) == [op |-> "copy", off |-> off, size |-> size, zero |-> zero]
Insert(data) == [op |-> "insert", data |-> data]

InstrEncode(ins) ==
    IF ins.op = "insert" THEN <<Len(ins.data)>> \o ins.data
    ELSE LET o == FieldBytes(ins.off, 4, 1, FALSE)
             l == FieldBytes(ins.size, 3, 16, ins.zero)
         IN  <<128 + o.bits + l.bits>> \o o.bytes \o l.bytes

RECURSIVE InstrsEncode(_)
InstrsEncode(instrs) ==
    IF instrs = <<>> THEN <<>>
    ELSE InstrEncode(instrs[1]) \o InstrsEncode(Drop(instrs, 1))

DeltaEncode(src, tgt, instrs) == Varint(src) \o Varint(tgt) \o InstrsEncode(instrs)

\* what a ref-delta entry holds after its header: base hash, zlib stream
RefDeltaPayload(base, tgt, instrs) ==
    hash(base) \o ZlibEncode(DeltaEncode(Len(base.body), tgt, instrs))

\* The number of bytes an instruction produces in the pack format: a copy
\* of size 0 stands for 0x10000 bytes.
InstrLen(ins) ==
    IF ins.op = "insert" THEN Len(ins.data)
    ELSE IF ins.size = 0 THEN 65536 ELSE ins.size

RECURSIVE InstrsLen(_)
InstrsLen(instrs) ==
    IF instrs = <<>> THEN 0 ELSE InstrLen(instrs[1]) + InstrsLen(Drop(instrs, 1))

DeltaBases ==
    {Object(k, <<97, 98, 99, 100>>) : k \in ObjectKind} \cup {Object("tree", TenBytes)}
DeltaInstrs ==
    {Copy(0, 2, FALSE), Copy(1, 3, FALSE), Copy(0, 0, FALSE), Copy(1, 0, TRUE),
     Copy(5, 4, FALSE), Copy(256, 2, FALSE), Insert(<<120>>), Insert(<<121, 122>>)}

DlInit ==
    /\ dl_base \in DeltaBases
    /\ dl_instrs \in SeqsUpTo(DeltaInstrs, MaxInstr)
    /\ dl_tgt \in {InstrsLen(dl_instrs), InstrsLen(dl_instrs) + 1}
    /\ dl_res = [st |-> "none"]

DlApply ==
    /\ dl_res.st = "none"
    /\ dl_res' = calculate_delta(RefDeltaPayload(dl_base, dl_tgt, dl_instrs),
                                  Len(DeltaEncode(Len(dl_base.body), dl_tgt, dl_instrs)),
                                  (hash(dl_base) :> dl_base))
    /\ UNCHANGED <<dl_base, dl_instrs, dl_tgt, fsVars, plVars, hdVars, pkVars, clVars, wtVars, plbVars>>

InitDelta == DlInit /\ IdleFs /\ IdlePl /\ IdleHd /\ IdlePk /\ IdleCl /\ IdleWt /\ IdlePlb

SpecDelta == InitDelta /\ [][DlApply]_vars

\* C5 (as stated): the object reconstructed from a ref-delta has the kind
\* of its base object.
C5_DeltaKeepsKind ==
    dl_res.st = "ok" => dl_res.obj.kind = dl_base.kind

\* C7 (as stated): the body a delta produces has the length its target-size
\* header declares; a delta that produces another length is not accepted.
C7_DeltaTargetSize ==
    dl_res.st = "ok" => Len(dl_res.obj.body) = dl_tgt

\* C8 (as stated): a copy instruction whose assembled size is 0 copies
\* 0x10000 bytes, so a delta with such a copy that is applied successfully
\* yields 0x10000 bytes for it.
C8_CopySizeZero ==
    (dl_res.st = "ok" /\ \E i \in 1..Len(dl_instrs) :
                             dl_instrs[i].op = "copy" /\ dl_instrs[i].size = 0)
    => Len(dl_res.obj.body) = InstrsLen(dl_instrs)

(***************************************************************************)
(* The pack parser (packet.rs, impl TryFrom<bytes::Bytes> for Packet).     *)
(***************************************************************************)
PACK == <<80, 65, 67, 75>>

\* impl TryFrom<ObjectType> for ObjectKind
ObjectKind_try_from(type) ==
    CASE type = "Commit" -> [ok |-> TRUE, kind |-> "commit"]
      [] type = "Tree" -> [ok |-> TRUE, kind |-> "tree"]
      [] type = "Blob" -> [ok |-> TRUE, kind |-> "blob"]
      [] type = "Tag" -> [ok |-> TRUE, kind |-> "commit"]
      [] OTHER -> [ok |-> FALSE, kind |-> "blob"]

\* Packet::try_from before its loop: the first line is skipped, the magic
\* is asserted, the last 20 bytes are cut off.  ptr is where the loop
\* starts and stop is raw.len() of the loop's test.
PackProlog(raw) ==
    LET p == Position(raw, {LF})
        pos == IF p < 0 THEN 0 ELSE p
    IN  IF Len(raw) < 20 \/ Len(raw) < pos + 1 + 12
            \/ Slice(raw, pos + 1, pos + 5) # PACK
        THEN [st |-> "panic", ptr |-> 0, stop |-> 0]
        ELSE [st |-> "ok", ptr |-> 12 + pos + 1, stop |-> Len(raw) - 20]

\* A map that keeps only the object inserted last
ObjectsInsertForgets(objects, obj) == (hash(obj) :> obj)

\* packet.objects.insert(obj.hash(), obj)
ObjectsInsert(objects, obj) ==
    [h \in DOMAIN objects \cup {hash(obj)} |-> IF h = hash(obj) THEN obj ELSE objects[h]]

\* One pass of the parse loop over raw (the response without its last 20
\* bytes) at ptr: the object decoded, the map and ptr after it.
PacketStep(raw, ptr, objects) ==
    LET h == ObjectHeader(raw, ptr)
        bad(st) == [st |-> st, type |-> h.type, obj |-> NoObject,
                    objects |-> objects, ptr |-> ptr]
        good(obj, nbytes) == [st |-> "ok", type |-> h.type, obj |-> obj,
                              objects |-> ObjectsInsert(objects, obj),
                              ptr |-> h.ptr + nbytes]
    IN  IF h.st # "ok" THEN bad(h.st)
        ELSE IF h.type = "OfsDelta" THEN bad("panic")
        ELSE IF h.type = "RefDelta"
        THEN LET d == calculate_delta(Drop(raw, h.ptr), h.obj_len, objects)
             IN  IF d.st # "ok" THEN bad(d.st) ELSE good(d.obj, d.nbytes)
        ELSE LET z == ZlibDecode(Drop(raw, h.ptr))
                 k == ObjectKind_try_from(h.type)
             IN  IF ~z.ok THEN bad("err")
                 ELSE IF Len(z.data) # h.obj_len THEN bad("panic")
                 ELSE good(Object(k.kind, z.data), z.used)

\* The whole loop
RECURSIVE PacketLoop(_, _, _)
PacketLoop(raw, ptr, objects) ==
    IF ptr >= Len(raw) THEN [st |-> "ok", objects |-> objects]
    ELSE LET r == PacketStep(raw, ptr, objects)
         IN  IF r.st # "ok" THEN [st |-> r.st, objects |-> objects]
             ELSE PacketLoop(raw, r.ptr, r.objects)

\* Packet::try_from(raw)
Packet_try_from(raw) ==
    LET p == PackProlog(raw)
    IN  IF p.st # "ok" THEN [st |-> p.st, objects |-> <<>>]
        ELSE PacketLoop(Take(raw, p.stop), p.ptr, <<>>)

(***************************************************************************)
(* Packs as a server builds them.                                          *)
(***************************************************************************)
TypeCode(type) ==
    CASE type = "Commit" -> 1 [] type = "Tree" -> 2 [] type = "Blob" -> 3
      [] type = "Tag" -> 4 [] type = "OfsDelta" -> 6 [] type = "RefDelta" -> 7

\* an entry header: type code and size, 4 bits then 7 bits per byte
EntryHeader(code, size) ==
    IF size < 16 THEN <<code * 16 + size>>
    ELSE <<128 + code * 16 + (size % 16)>> \o Varint(size \div 16)

\* a whole object of a type
Full(type, body) == [sort |-> "full", code |-> TypeCode(type), body |-> body]

\* an entry with a type code as given: 6 (ofs-delta), or a code no type has
Other(code, body) == [sort |-> "full", code |-> code, body |-> body]

\* a ref-delta against base: the object it stands for has base's kind
RefDelta(base, instrs) ==
    [sort |-> "delta", code |-> 7, base |-> base, instrs |-> instrs]

EntryEncode(e) ==
    IF e.sort = "full" THEN EntryHeader(e.code, Len(e.body)) \o ZlibEncode(e.body)
    ELSE EntryHeader(7, Len(DeltaEncode(Len(e.base.body), InstrsLen(e.instrs), e.instrs)))
         \o RefDeltaPayload(e.base, InstrsLen(e.instrs), e.instrs)

RECURSIVE EntriesEncode(_)
EntriesEncode(es) ==
    IF es = <<>> THEN <<>> ELSE EntryEncode(es[1]) \o EntriesEncode(Drop(es, 1))

\* "0008NAK\n"
NAK == <<48, 48, 48, 56, 78, 65, 75, LF>>

\* the checksum that ends a pack; the parser never reads it
Trailer == [i \in 1..HashLen |-> 170]

PackEncode(es) ==
    NAK \o PACK \o <<0, 0, 0, 2>> \o <<0, 0, 0, Len(es)>> \o EntriesEncode(es) \o Trailer

\* The bytes a well-formed list of instructions builds from a base body
RECURSIVE Apply(_, _)
Apply(instrs, base_body) ==
    IF instrs = <<>> THEN <<>>
    ELSE (IF instrs[1].op = "insert" THEN instrs[1].data
          ELSE Slice(base_body, instrs[1].off, instrs[1].off + instrs[1].size))
         \o Apply(Drop(instrs, 1), base_body)

BlobA == Object("blob", <<97, 98, 99, 100>>)
CommitC == Object("commit", <<116, 114, 101, 101, SP, 48, LF>>)
EditA == <<Copy(1, 2, FALSE), Insert(<<120>>)>>
EditC == <<Insert(<<112>>), Copy(0, 5, FALSE)>>
\* the commit the delta EditC against CommitC stands for, and a delta on it
CommitD == Object("commit", Apply(EditC, CommitC.body))
EditD == <<Copy(0, 3, FALSE)>>
PackEntries ==
    {Full("Blob", BlobA.body), Full("Commit", CommitC.body), Full("Tree", <<>>),
     Full("Tag", <<116>>), RefDelta(BlobA, EditA), RefDelta(CommitC, EditC),
     RefDelta(CommitD, EditD),
     Other(6, <<1>>), Other(0, <<>>), Other(5, <<2, 3>>)}

PkInit ==
    /\ pk_entries \in SeqsUpTo(PackEntries, MaxEntries)
    /\ pk_raw = PackEncode(pk_entries)
    /\ pk_ptr = 0
    /\ pk_objects = <<>>
    /\ pk_st = "start"
    /\ pk_log = <<>>

PkProlog ==
    /\ pk_st = "start"
    /\ \E p \in {PackProlog(pk_raw)} :
          /\ pk_st' = IF p.st = "ok" THEN "loop" ELSE p.st
          /\ pk_ptr' = p.ptr
    /\ UNCHANGED <<pk_entries, pk_raw, pk_objects, pk_log, fsVars, plVars, hdVars, dlVars, clVars, wtVars, plbVars>>

PkEntry ==
    /\ pk_st = "loop"
    /\ pk_ptr < Len(pk_raw) - 20
    /\ \E r \in {PacketStep(Take(pk_raw, Len(pk_raw) - 20), pk_ptr, pk_objects)} :
          /\ pk_st' = IF r.st = "ok" THEN "loop" ELSE r.st
          /\ pk_ptr' = r.ptr
          /\ pk_objects' = r.objects
          /\ pk_log' = Append(pk_log, [st |-> r.st, type |-> r.type, obj |-> r.obj])
    /\ UNCHANGED <<pk_entries, pk_raw, fsVars, plVars, hdVars, dlVars, clVars, wtVars, plbVars>>

PkReturn ==
    /\ pk_st = "loop"
    /\ pk_ptr >= Len(pk_raw) - 20
    /\ pk_st' = "ok"
    /\ UNCHANGED <<pk_entries, pk_raw, pk_ptr, pk_objects, pk_log, fsVars, plVars, hdVars, dlVars, clVars, wtVars, plbVars>>

PkNext == PkProlog \/ PkEntry \/ PkReturn

InitPack == PkInit /\ IdleFs /\ IdlePl /\ IdleHd /\ IdleDl /\ IdleCl /\ IdleWt /\ IdlePlb

SpecPack == InitPack /\ [][PkNext]_vars

(***************************************************************************)
(* Claims about the pack parser.                                           *)
(***************************************************************************)
\* the positions before i whose entry was decoded to an object of hash h
DecodedBefore(i, h) == {j \in 1..(i - 1) : pk_log[j].st = "ok" /\ hash(pk_log[j].obj) = h}

\* C6: while a pack is parsed the object map holds exactly the objects
\* decoded from the entries before the one at hand, keyed by their hash; a
\* ref-delta whose base hash is among them is rebuilt from that object, and
\* one whose base is not (a base that comes later included) ends the parse
\* with an error.
C6_DeltaAgainstEarlier ==
    pk_st \in {"loop", "ok", "err", "panic"} =>
        /\ DOMAIN pk_objects = {hash(pk_log[j].obj) : j \in {k \in 1..Len(pk_log) : pk_log[k].st = "ok"}}
        /\ \A j \in 1..Len(pk_log) :
              pk_log[j].st = "ok" => pk_objects[hash(pk_log[j].obj)] = pk_log[j].obj
        /\ \A i \in 1..Len(pk_log) :
              pk_entries[i].sort = "delta" =>
                  LET bh == hash(pk_entries[i].base)
                  IN  IF DecodedBefore(i, bh) # {}
                      THEN /\ pk_log[i].st = "ok"
                           /\ \E j \in DecodedBefore(i, bh) :
                                 pk_log[i].obj.body = Apply(pk_entries[i].instrs, pk_log[j].obj.body)
                      ELSE pk_log[i].st = "err" /\ pk_st = "err" /\ i = Len(pk_log)

\* C6 witness: a commit, then a ref-delta against it, parsed to the end.
C6_Witness ==
    /\ pk_st = "ok"
    /\ pk_entries = <<Full("Commit", CommitC.body), RefDelta(CommitC, EditC)>>
    /\ Cardinality(DOMAIN pk_objects) = 2

\* C9 (as stated): the parse of a pack with an entry of type 6 or of the
\* type codes 0 or 5 ends with an error returned; it does not crash and
\* does not return an object map.
C9_UnsupportedIsError ==
    (pk_st \in {"ok", "err", "panic"}
        /\ \E i \in 1..Len(pk_entries) : pk_entries[i].code \in {0, 5, 6})
    => pk_st = "err"

(***************************************************************************)
(* Trees (object.rs, impl TryFrom<Object> for Tree).                       *)
(***************************************************************************)
MODE_DIR == <<52, 48, 48, 48, 48>>
MODE_SYMLINK == <<49, 50, 48, 48, 48, 48>>
MODE_FILE == <<49, 48, 48, 54, 52, 52>>
MODE_EXEC == <<49, 48, 48, 55, 53, 53>>

\* the match on the mode string: the NodeKind, or none
NodeKindOf(mode) ==
    CASE mode = MODE_DIR -> [ok |-> TRUE, kind |-> "Dir"]
      [] mode = MODE_SYMLINK -> [ok |-> TRUE, kind |-> "SymLink"]
      [] mode = MODE_FILE -> [ok |-> TRUE, kind |-> "File"]
      [] mode = MODE_EXEC -> [ok |-> TRUE, kind |-> "File"]
      [] OTHER -> [ok |-> FALSE, kind |-> "none"]

\* The while loop of Tree::try_from from ptr on: the nodes, an Err for an
\* unknown mode or a string that is not UTF-8, a panic for a missing NUL or
\* a hash cut short.
RECURSIVE TreeLoop(_, _, _)
TreeLoop(body, ptr, nodes) ==
    LET mode_end_index == Position(Drop(body, ptr), {SP})
    IN  IF mode_end_index < 0 THEN [st |-> "ok", nodes |-> nodes]
        ELSE LET mode == Slice(body, ptr, ptr + mode_end_index)
                 ptr1 == ptr + mode_end_index + 1
                 name_end_index == Position(Drop(body, ptr1), {NUL})
                 ptr2 == ptr1 + name_end_index + 1
                 kind == NodeKindOf(mode)
             IN  IF ~IsUtf8(mode) THEN [st |-> "err", nodes |-> nodes]
                 ELSE IF name_end_index < 0 THEN [st |-> "panic", nodes |-> nodes]
                 ELSE IF ~IsUtf8(Slice(body, ptr1, ptr1 + name_end_index))
                 THEN [st |-> "err", nodes |-> nodes]
                 ELSE IF ptr2 + HashLen > Len(body) THEN [st |-> "panic", nodes |-> nodes]
                 ELSE IF ~kind.ok THEN [st |-> "err", nodes |-> nodes]
                 ELSE TreeLoop(body, ptr2 + HashLen,
                               Append(nodes, [name |-> Slice(body, ptr1, ptr1 + name_end_index),
                                              kind |-> kind.kind, mode |-> mode,
                                              hash |-> Slice(body, ptr2, ptr2 + HashLen)]))

\* impl TryFrom<Object> for Tree
Tree_try_from(obj) == TreeLoop(obj.body, 0, <<>>)

(***************************************************************************)
(* Materialization of a commit (main.rs, build_from_head and the build    *)
(* functions under it).  The file system is                                *)
(* threaded through as fs = [files, dirs].                                 *)
(***************************************************************************)
WHITESPACE == {9, 10, 11, 12, 13, SP}
PARENT == <<112, 97, 114, 101, 110, 116>>

\* BufRead::lines over a byte slice: split at \n, a \r before it dropped
RECURSIVE Lines(_)
Lines(body) ==
    IF body = <<>> THEN <<>>
    ELSE LET p == Position(body, {LF})
             raw == IF p < 0 THEN body ELSE Take(body, p)
             line == IF p >= 0 /\ raw # <<>> /\ raw[Len(raw)] = 13
                     THEN Take(raw, Len(raw) - 1) ELSE raw
         IN  <<line>> \o (IF p < 0 THEN <<>> ELSE Lines(Drop(body, p + 1)))

\* str::split_once(char::is_whitespace)
SplitOnce(line) ==
    LET p == Position(line, WHITESPACE)
    IN  IF p < 0 THEN [some |-> FALSE, head |-> <<>>, tail |-> <<>>]
        ELSE [some |-> TRUE, head |-> Take(line, p), tail |-> Drop(line, p + 1)]

\* hex_to_array: 40 characters, each pair read by u8::from_str_radix(_, 16)
hex_to_array(hex) ==
    LET pair(i) == FromStrRadix16(Slice(hex, 2 * (i - 1), 2 * i))
    IN  IF Len(hex) # 2 * HashLen THEN [ok |-> FALSE, array |-> <<>>]
        ELSE IF \E i \in 1..HashLen : ~pair(i).ok THEN [ok |-> FALSE, array |-> <<>>]
        ELSE [ok |-> TRUE, array |-> [i \in 1..HashLen |-> pair(i).val]]

\* Path::exists
PathExists(fs, p) == Resolve(p) \in DOMAIN fs.files \/ Resolve(p) \in fs.dirs

\* the directory a relative path starts from always exists
DirExists(fs, p) == Resolve(p) = <<>> \/ Resolve(p) \in fs.dirs

Failed(fs) == [st |-> "err", files |-> fs.files, dirs |-> fs.dirs]
Panicked(fs) == [st |-> "panic", files |-> fs.files, dirs |-> fs.dirs]
Done(fs) == [st |-> "ok", files |-> fs.files, dirs |-> fs.dirs]

\* build_file without the early return on an existing path (the mutant)
build_file_overwriting(node, current_dir, objects, fs) ==
    LET file_path == Join(current_dir, <<node.name>>)
    IN  IF node.hash \notin DOMAIN objects THEN Failed(fs)
        ELSE IF ~DirExists(fs, Parent(file_path)) THEN Failed(fs)
        ELSE [st |-> "ok",
              files |-> WriteFile(fs.files, file_path, objects[node.hash].body),
              dirs |-> fs.dirs]

\* build_file: an existing path is left alone; else the blob is looked up
\* in the packet and written
build_file(node, current_dir, objects, fs) ==
    LET file_path == Join(current_dir, <<node.name>>)
    IN  IF PathExists(fs, file_path) THEN Done(fs)
        ELSE IF node.hash \notin DOMAIN objects THEN Failed(fs)
        ELSE IF ~DirExists(fs, Parent(file_path)) THEN Failed(fs)
        ELSE [st |-> "ok",
              files |-> WriteFile(fs.files, file_path, objects[node.hash].body),
              dirs |-> fs.dirs]

RECURSIVE build_tree(_, _, _, _)
RECURSIVE BuildNodes(_, _, _, _)
RECURSIVE build_commit(_, _, _, _)
RECURSIVE BuildLines(_, _, _, _)

\* the for loop of build_tree over tree.nodes
BuildNodes(nodes, current_dir, objects, fs) ==
    IF nodes = <<>> THEN Done(fs)
    ELSE LET node == nodes[1]
             dir_path == Join(current_dir, <<node.name>>)
             r == IF node.kind = "Dir"
                  THEN IF Resolve(dir_path) \in DOMAIN fs.files THEN Failed(fs)
                       ELSE build_tree(display_hex(node.hash), dir_path, objects,
                                       [files |-> fs.files,
                                        dirs |-> fs.dirs \cup Ancestors(dir_path)])
                  ELSE build_file(node, current_dir, objects, fs)
         IN  IF r.st # "ok" THEN r
             ELSE BuildNodes(Drop(nodes, 1), current_dir, objects, r)

\* build_tree
build_tree(hex, current_dir, objects, fs) ==
    LET h == hex_to_array(hex)
    IN  IF ~h.ok THEN Failed(fs)
        ELSE IF h.array \notin DOMAIN objects THEN Failed(fs)
        ELSE LET tree == Tree_try_from(objects[h.array])
             IN  IF tree.st = "err" THEN Failed(fs)
                 ELSE IF tree.st = "panic" THEN Panicked(fs)
                 ELSE BuildNodes(tree.nodes, current_dir, objects, fs)

\* the for loop of build_commit over the lines of the commit body
BuildLines(lines, current_dir, objects, fs) ==
    IF lines = <<>> THEN Done(fs)
    ELSE LET s == SplitOnce(lines[1])
             r == IF ~IsUtf8(lines[1]) THEN Failed(fs)
                  ELSE IF ~s.some THEN Done(fs)
                  ELSE IF s.head = KindName("tree")
                  THEN build_tree(s.tail, current_dir, objects, fs)
                  ELSE IF s.head = PARENT
                  THEN build_commit(s.tail, current_dir, objects, fs)
                  ELSE Done(fs)
         IN  IF r.st # "ok" THEN r
             ELSE BuildLines(Drop(lines, 1), current_dir, objects, r)

\* build_commit
build_commit(hex, current_dir, objects, fs) ==
    LET h == hex_to_array(hex)
    IN  IF ~h.ok THEN Failed(fs)
        ELSE IF h.array \notin DOMAIN objects THEN Failed(fs)
        ELSE BuildLines(Lines(objects[h.array].body), current_dir, objects, fs)

\* build_from_head
build_from_head(head_hash, current_dir, objects, fs) ==
    build_commit(head_hash, current_dir, objects, fs)

(***************************************************************************)
(* Materialization from the store on disk (packet.rs, the rebuild          *)
(* functions): every object is read back with Object::load.                *)
(***************************************************************************)
\* Object::load as rebuild calls it: path_from_hex slices hex[..2] first
LoadHex(hex, fs) ==
    IF Len(hex) < 2 THEN [st |-> "panic", obj |-> Object("blob", <<>>)]
    ELSE load(hex, fs.files)

\* rebuild_file
rebuild_file(node, current_dir, fs) ==
    IF PathExists(fs, Join(current_dir, <<node.name>>)) THEN Done(fs)
    ELSE CHOOSE r \in
        {IF l.st = "err" THEN Failed(fs)
         ELSE IF l.st = "panic" THEN Panicked(fs)
         ELSE IF ~DirExists(fs, current_dir) THEN Failed(fs)
         ELSE [st |-> "ok",
               files |-> WriteFile(fs.files, Join(current_dir, <<node.name>>), l.obj.body),
               dirs |-> fs.dirs]
         : l \in {LoadHex(display_hex(node.hash), fs)}} : TRUE

RECURSIVE rebuild_tree(_, _, _)
RECURSIVE RebuildNodes(_, _, _)
RECURSIVE rebuild_commit(_, _, _)
RECURSIVE RebuildLines(_, _, _)

\* the for loop of rebuild_tree over tree.nodes
RebuildNodes(nodes, current_dir, fs) ==
    IF nodes = <<>> THEN Done(fs)
    ELSE CHOOSE q \in
        {IF r.st # "ok" THEN r ELSE RebuildNodes(Drop(nodes, 1), current_dir, r)
         : r \in {IF nodes[1].kind = "Dir"
                  THEN IF Resolve(Join(current_dir, <<nodes[1].name>>)) \in DOMAIN fs.files
                       THEN Failed(fs)
                       ELSE rebuild_tree(display_hex(nodes[1].hash),
                                         Join(current_dir, <<nodes[1].name>>),
                                         [files |-> fs.files,
                                          dirs |-> fs.dirs \cup
                                                   Ancestors(Join(current_dir, <<nodes[1].name>>))])
                  ELSE rebuild_file(nodes[1], current_dir, fs)}} : TRUE

\* what rebuild_tree does with the object it loaded
RebuildLoaded(l, current_dir, fs) ==
    IF l.st = "err" THEN Failed(fs)
    ELSE IF l.st = "panic" THEN Panicked(fs)
    ELSE CHOOSE r \in
        {IF tree.st = "err" THEN Failed(fs)
         ELSE IF tree.st = "panic" THEN Panicked(fs)
         ELSE RebuildNodes(tree.nodes, current_dir, fs)
         : tree \in {Tree_try_from(l.obj)}} : TRUE

\* rebuild_tree
rebuild_tree(hex, current_dir, fs) ==
    CHOOSE r \in {RebuildLoaded(l, current_dir, fs) : l \in {LoadHex(hex, fs)}} : TRUE

\* the for loop of rebuild_commit over the lines of the commit body
RebuildLines(lines, current_dir, fs) ==
    IF lines = <<>> THEN Done(fs)
    ELSE CHOOSE q \in
        {IF r.st # "ok" THEN r ELSE RebuildLines(Drop(lines, 1), current_dir, r)
         : r \in {IF ~IsUtf8(lines[1]) THEN Failed(fs)
                  ELSE IF ~SplitOnce(lines[1]).some THEN Done(fs)
                  ELSE IF SplitOnce(lines[1]).head = KindName("tree")
                  THEN rebuild_tree(SplitOnce(lines[1]).tail, current_dir, fs)
                  ELSE IF SplitOnce(lines[1]).head = PARENT
                  THEN rebuild_commit(SplitOnce(lines[1]).tail, current_dir, fs)
                  ELSE Done(fs)}} : TRUE

\* rebuild_commit: the commit is loaded, written back, and its lines walked
rebuild_commit(hex, current_dir, fs) ==
    CHOOSE r \in
        {IF l.st = "err" THEN Failed(fs)
         ELSE IF l.st = "panic" THEN Panicked(fs)
         ELSE CHOOSE q \in
             {RebuildLines(Lines(l.obj.body), current_dir, [files |-> w.files, dirs |-> w.dirs])
              : w \in {persist(l.obj, fs.files, fs.dirs, TRUE)}} : TRUE
         : l \in {LoadHex(hex, fs)}} : TRUE

\* rebuild_directory_from_head
rebuild_directory_from_head(head_hash, current_dir, fs) ==
    rebuild_commit(head_hash, current_dir, fs)

(***************************************************************************)
(* Ref discovery and fetch (main.rs fetch_refs, fetch_objects; packet.rs   *)
(* do_info_refs_request, get_objects_of_refs).                             *)
(***************************************************************************)
HEAD == <<72, 69, 65, 68>>
REFS == <<114, 101, 102, 115>>

\* The for loop of fetch_refs over
\* skip_while(non-empty).skip(1).take_while(non-empty); taking is FALSE
\* until the first empty packet has gone by.
RECURSIVE RefsLoop(_, _, _)
RefsLoop(stream, taking, refs) ==
    LET n == PacketLineIterator_next(stream)
        pos0 == Position(n.data, {NUL, LF})
        pos == IF pos0 < 0 THEN Len(n.data) ELSE pos0
    IN  IF n.st = "panic" THEN [st |-> "panic", refs |-> refs]
        ELSE IF n.st = "none" THEN [st |-> "ok", refs |-> refs]
        ELSE IF ~taking THEN RefsLoop(n.stream, n.data = <<>>, refs)
        ELSE IF n.data = <<>> THEN [st |-> "ok", refs |-> refs]
        ELSE IF pos < 41 THEN [st |-> "panic", refs |-> refs]
        ELSE IF ~IsUtf8(Slice(n.data, 41, pos)) \/ ~IsUtf8(Take(n.data, 40))
        THEN [st |-> "err", refs |-> refs]
        ELSE RefsLoop(n.stream, TRUE,
                      Append(refs, [name |-> Slice(n.data, 41, pos),
                                    hash |-> Take(n.data, 40)]))

\* fetch_refs / do_info_refs_request on the body of the response
fetch_refs(body) == RefsLoop(body, FALSE, <<>>)

\* refs.iter().find(|(name, _)| name == "HEAD"): the first such pair
FindHead(refs) ==
    LET at == {i \in 1..Len(refs) : refs[i].name = HEAD}
    IN  IF at = {} THEN [some |-> FALSE, hash |-> <<>>]
        ELSE [some |-> TRUE, hash |-> refs[CHOOSE i \in at : \A j \in at : i <= j].hash]

\* fetch_objects / get_objects_of_refs on the body of the response
fetch_objects(body) == Packet_try_from(body)

\* fs::create_dir: the parent must exist and the path must not
create_dir(fs, p, io_ok) ==
    IF io_ok /\ ~PathExists(fs, p) /\ DirExists(fs, Parent(p))
    THEN [st |-> "ok", files |-> fs.files, dirs |-> fs.dirs \cup {Resolve(p)}]
    ELSE Failed(fs)

HEAD_REF == <<114, 101, 102, 58, SP, 114, 101, 102, 115, 47, 104, 101, 97, 100, 115, 47,
              109, 97, 115, 116, 101, 114, LF>>

\* init(current_dir): good is the number of its four calls the system lets
\* succeed before it fails one; 4 lets all of them succeed
init(current_dir, fs, good) ==
    LET git == Join(current_dir, <<DOT_GIT>>)
        a == create_dir(fs, git, good >= 1)
        b == create_dir(a, Join(git, <<OBJECTS>>), good >= 2)
        c == create_dir(b, Join(git, <<REFS>>), good >= 3)
    IN  IF a.st # "ok" THEN a
        ELSE IF b.st # "ok" THEN b
        ELSE IF c.st # "ok" THEN c
        ELSE IF good < 4 \/ Resolve(Join(git, <<HEAD>>)) \in c.dirs THEN Failed(c)
        ELSE [st |-> "ok", files |-> WriteFile(c.files, Join(git, <<HEAD>>), HEAD_REF),
              dirs |-> c.dirs]

(***************************************************************************)
(* The remote: the repositories a clone is run against.                    *)
(***************************************************************************)
MaxCommits == 2

FILE_F == <<102>>
FILE_G == <<103>>
DIR_D == <<100>>
MASTER == <<114, 101, 102, 115, 47, 104, 101, 97, 100, 115, 47, 109, 97, 115, 116, 101, 114>>

TreeEntry(mode, name, obj) == mode \o <<SP>> \o name \o <<NUL>> \o hash(obj)

RECURSIVE Concat(_)
Concat(ss) == IF ss = <<>> THEN <<>> ELSE ss[1] \o Concat(Drop(ss, 1))

TreeOf(entries) == Object("tree", Concat(entries))

\* a commit body: the tree line, a parent line per parent, a blank line and
\* a one-line message
CommitOf(tree, parents, message) ==
    Object("commit",
           KindName("tree") \o <<SP>> \o display_hex(hash(tree)) \o <<LF>>
           \o Concat([i \in 1..Len(parents) |->
                         PARENT \o <<SP>> \o display_hex(hash(parents[i])) \o <<LF>>])
           \o <<LF>> \o message \o <<LF>>)

\* The i-th commit of a linear history: its tree holds the file f with the
\* body "<i>\n"; every commit but the first names its predecessor as parent.
BlobN(i) == Object("blob", <<48 + i, LF>>)
TreeN(i) == TreeOf(<<TreeEntry(MODE_FILE, FILE_F, BlobN(i))>>)
RECURSIVE CommitN(_)
CommitN(i) ==
    CommitOf(TreeN(i), IF i = 1 THEN <<>> ELSE <<CommitN(i - 1)>>, <<109, 48 + i>>)

RECURSIVE History(_)
History(n) ==
    IF n = 0 THEN <<>> ELSE <<CommitN(n), TreeN(n), BlobN(n)>> \o History(n - 1)

\* a commit whose tree holds an executable g and a directory d with f in it
SubTree == TreeOf(<<TreeEntry(MODE_FILE, FILE_F, BlobN(1))>>)
TopTree == TreeOf(<<TreeEntry(MODE_DIR, DIR_D, SubTree), TreeEntry(MODE_EXEC, FILE_G, BlobN(1))>>)
NestedCommit == CommitOf(TopTree, <<>>, <<109>>)

\* a root commit whose tree holds g = "2\n" and whose message, after its
\* first line, has the line "parent <hex of CommitN(1)>"
TreeG == TreeOf(<<TreeEntry(MODE_FILE, FILE_G, BlobN(2))>>)
QuotingCommit ==
    CommitOf(TreeG, <<>>, <<109, LF>> \o PARENT \o <<SP>> \o display_hex(hash(CommitN(1))))

\* a root commit with the tree of CommitN(1) and the message "parent of m"
ProseCommit == CommitOf(TreeN(1), <<>>, PARENT \o <<SP, 111, 102, SP, 109>>)

PackType(obj) ==
    CASE obj.kind = "commit" -> "Commit" [] obj.kind = "tree" -> "Tree" [] OTHER -> "Blob"

\* the upload-pack response that carries the objects as whole entries
PackOf(objs) == PackEncode([i \in 1..Len(objs) |-> Full(PackType(objs[i]), objs[i].body)])

SERVICE == <<35, SP, 115, 101, 114, 118, 105, 99, 101, 61, 103, 105, 116, 45, 117, 112,
             108, 111, 97, 100, 45, 112, 97, 99, 107, LF>>

\* the info/refs response: the service line, a flush, a line per ref (the
\* first with capabilities after a NUL), a flush
Advert(refs) ==
    PktEncode(SERVICE) \o PktEncode(<<>>)
    \o Concat([i \in 1..Len(refs) |->
                  PktEncode(display_hex(hash(refs[i].obj)) \o <<SP>> \o refs[i].name
                            \o (IF i = 1 THEN <<NUL, 97>> ELSE <<>>) \o <<LF>>)])
    \o PktEncode(<<>>)

Ref(name, obj) == [name |-> name, obj |-> obj]

Remote(refs, objs) == [advert |-> Advert(refs), pack |-> PackOf(objs)]

Remotes ==
    {Remote(<<Ref(HEAD, CommitN(n)), Ref(MASTER, CommitN(n))>>, History(n)) : n \in 1..MaxCommits}
    \cup {Remote(<<Ref(HEAD, NestedCommit), Ref(MASTER, NestedCommit)>>,
                 <<BlobN(1), SubTree, TopTree, NestedCommit>>),
          \* no HEAD among the refs
          Remote(<<Ref(MASTER, CommitN(1))>>, History(1)),
          \* the blob of the tree is not in the pack
          Remote(<<Ref(HEAD, CommitN(1)), Ref(MASTER, CommitN(1))>>, <<CommitN(1), TreeN(1)>>),
          \* the message of HEAD's commit names the commit of another branch
          Remote(<<Ref(HEAD, QuotingCommit), Ref(MASTER, CommitN(1))>>,
                 <<QuotingCommit, TreeG, BlobN(2)>> \o History(1)),
          \* the message of HEAD's commit has a line of prose that starts with parent
          Remote(<<Ref(HEAD, ProseCommit), Ref(MASTER, ProseCommit)>>,
                 <<ProseCommit, TreeN(1), BlobN(1)>>)}

(***************************************************************************)
(* The clone driver (main.rs git_clone; packet.rs git_clone).              *)
(***************************************************************************)
\* The steps of git_clone in the order of its statements; the mutant has
\* main.rs persist before it builds.
CloneStepsPersistFirst(driver) ==
    IF driver = "main"
    THEN <<"create_dir_all", "init", "fetch_refs", "find_head", "fetch_objects", "persist", "build">>
    ELSE <<"create_dir_all", "fetch_refs", "find_head", "fetch_objects", "persist", "rebuild">>

CloneSteps(driver) ==
    IF driver = "main"
    THEN <<"create_dir_all", "init", "fetch_refs", "find_head", "fetch_objects", "build", "persist">>
    ELSE <<"create_dir_all", "fetch_refs", "find_head", "fetch_objects", "persist", "rebuild">>

\* the statement git_clone is at
AtStep(step) ==
    /\ cl_st = "run"
    /\ cl_pc <= Len(CloneSteps(cl_driver))
    /\ CloneSteps(cl_driver)[cl_pc] = step

\* where the persist loop writes: persist_in(dst) in main.rs, persist() in
\* packet.rs
PersistRoot(driver, dst) == IF driver = "main" THEN dst ELSE <<DOT>>

ClStart ==
    /\ cl_driver \in {"main", "legacy"}
    /\ cl_dst \in Roots
    /\ cl_remote \in Remotes
    /\ cl_pc = 1
    /\ cl_st = "run"
    /\ cl_refs = <<>>
    /\ cl_head = <<>>
    /\ cl_objects = <<>>
    /\ cl_todo = {}
    /\ files = EmptyFs
    /\ dirs \in {{}, Ancestors(Join(cl_dst, <<DOT_GIT>>))}
    /\ store_res = [op |-> "none"]

\* what a step leaves of the driver's state when it fails or goes on
ClEnd(st) ==
    /\ cl_st' = (IF st = "ok" THEN "run" ELSE st)
    /\ cl_pc' = (IF st = "ok" THEN cl_pc + 1 ELSE cl_pc)

\* std::fs::create_dir_all(dst)?
ClCreateDirAll(io_ok) ==
    /\ AtStep("create_dir_all")
    /\ dirs' = (IF io_ok THEN dirs \cup Ancestors(cl_dst) ELSE dirs)
    /\ ClEnd(IF io_ok THEN "ok" ELSE "err")
    /\ UNCHANGED <<files, cl_refs, cl_head, cl_objects, cl_todo,
                   clEnv, plVars, hdVars, dlVars, pkVars, wtVars, plbVars>>

\* init(dst)?
ClInit(good) ==
    /\ AtStep("init")
    /\ \E r \in {init(cl_dst, [files |-> files, dirs |-> dirs], good)} :
          /\ files' = r.files
          /\ dirs' = r.dirs
          /\ ClEnd(r.st)
    /\ UNCHANGED <<cl_refs, cl_head, cl_objects, cl_todo,
                   clEnv, plVars, hdVars, dlVars, pkVars, wtVars, plbVars>>

\* let refs = fetch_refs(&client, url)?; net_ok = FALSE is a failed request
ClFetchRefs(net_ok) ==
    /\ AtStep("fetch_refs")
    /\ \E r \in {IF net_ok THEN fetch_refs(cl_remote.advert) ELSE [st |-> "err", refs |-> <<>>]} :
          /\ cl_refs' = r.refs
          /\ ClEnd(r.st)
    /\ UNCHANGED <<files, dirs, cl_head, cl_objects, cl_todo,
                   clEnv, plVars, hdVars, dlVars, pkVars, wtVars, plbVars>>

\* let head_hash = refs.iter().find(..)...ok_or(..)?
ClFindHead ==
    /\ AtStep("find_head")
    /\ \E r \in {FindHead(cl_refs)} :
          /\ cl_head' = r.hash
          /\ ClEnd(IF r.some THEN "ok" ELSE "err")
    /\ UNCHANGED <<files, dirs, cl_refs, cl_objects, cl_todo,
                   clEnv, plVars, hdVars, dlVars, pkVars, wtVars, plbVars>>

\* let packet = fetch_objects(&client, url, refs)?
ClFetchObjects(net_ok) ==
    /\ AtStep("fetch_objects")
    /\ \E r \in {IF net_ok THEN fetch_objects(cl_remote.pack) ELSE [st |-> "err", objects |-> <<>>]} :
          /\ cl_objects' = (IF r.st = "ok" THEN r.objects ELSE <<>>)
          /\ cl_todo' = (IF r.st = "ok" THEN DOMAIN r.objects ELSE {})
          /\ ClEnd(r.st)
    /\ UNCHANGED <<files, dirs, cl_refs, cl_head,
                   clEnv, plVars, hdVars, dlVars, pkVars, wtVars, plbVars>>

\* build_from_head(&head_hash, dst, &packet)?
ClBuild ==
    /\ AtStep("build")
    /\ \E r \in {build_from_head(cl_head, cl_dst, cl_objects, [files |-> files, dirs |-> dirs])} :
          /\ files' = r.files
          /\ dirs' = r.dirs
          /\ ClEnd(r.st)
    /\ UNCHANGED <<cl_refs, cl_head, cl_objects, cl_todo,
                   clEnv, plVars, hdVars, dlVars, pkVars, wtVars, plbVars>>

\* rebuild_directory_from_head(head_hash, &dst)?
ClRebuild ==
    /\ AtStep("rebuild")
    /\ \E r \in {rebuild_directory_from_head(cl_head, cl_dst, [files |-> files, dirs |-> dirs])} :
          /\ files' = r.files
          /\ dirs' = r.dirs
          /\ ClEnd(r.st)
    /\ UNCHANGED <<cl_refs, cl_head, cl_objects, cl_todo,
                   clEnv, plVars, hdVars, dlVars, pkVars, wtVars, plbVars>>

\* One pass of for obj in packet.objects.values() { obj.persist_in(dst)?; }
\* (obj.persist()? in packet.rs); a HashMap yields its values in any order.
ClPersist(h, io_ok) ==
    /\ AtStep("persist")
    /\ h \in cl_todo
    /\ \E r \in {persist_in(cl_objects[h], PersistRoot(cl_driver, cl_dst), files, dirs, io_ok)} :
          /\ files' = r.files
          /\ dirs' = r.dirs
          /\ cl_st' = (IF r.ok THEN "run" ELSE "err")
    /\ cl_todo' = cl_todo \ {h}
    /\ UNCHANGED <<cl_pc, cl_refs, cl_head, cl_objects,
                   clEnv, plVars, hdVars, dlVars, pkVars, wtVars, plbVars>>

\* the persist loop has visited every object
ClPersistEnd ==
    /\ AtStep("persist")
    /\ cl_todo = {}
    /\ ClEnd("ok")
    /\ UNCHANGED <<files, dirs, cl_refs, cl_head, cl_objects, cl_todo,
                   clEnv, plVars, hdVars, dlVars, pkVars, wtVars, plbVars>>

\* Ok(())
ClReturn ==
    /\ cl_st = "run"
    /\ cl_pc > Len(CloneSteps(cl_driver))
    /\ cl_st' = "ok"
    /\ UNCHANGED <<files, dirs, cl_pc, cl_refs, cl_head, cl_objects, cl_todo,
                   clEnv, plVars, hdVars, dlVars, pkVars, wtVars, plbVars>>

CloneNext ==
    \/ \E io_ok \in BOOLEAN : ClCreateDirAll(io_ok)
    \/ \E good \in 0..4 : ClInit(good)
    \/ \E net_ok \in BOOLEAN : ClFetchRefs(net_ok)
    \/ ClFindHead
    \/ \E net_ok \in BOOLEAN : ClFetchObjects(net_ok)
    \/ ClBuild
    \/ ClRebuild
    \/ \E h \in cl_todo, io_ok \in BOOLEAN : ClPersist(h, io_ok)
    \/ ClPersistEnd
    \/ ClReturn

InitClone == ClStart /\ IdlePl /\ IdleHd /\ IdleDl /\ IdlePk /\ IdleWt /\ IdlePlb

SpecClone == InitClone /\ [][CloneNext]_vars

(***************************************************************************)
(* Claims about clone.                                                     *)
(***************************************************************************)
\* the step of git_clone that materializes the working tree
MaterializeStep(driver) == IF driver = "main" THEN "build" ELSE "rebuild"

\* the position of that step among the steps of git_clone
MaterializeAt(driver) ==
    CHOOSE i \in 1..Len(CloneSteps(driver)) : CloneSteps(driver)[i] = MaterializeStep(driver)

\* materialization has begun: it has returned, with Ok or with a failure
MaterializationBegun ==
    /\ cl_st \in {"run", "ok", "err", "panic"}
    /\ \/ cl_pc > MaterializeAt(cl_driver)
       \/ cl_pc = MaterializeAt(cl_driver) /\ cl_st \in {"err", "panic"}

\* the store under root holds the unpacked object of hash h
Holds(root, h) ==
    /\ FileExists(files, Join(root, path(h)))
    /\ files[Resolve(Join(root, path(h)))] = PersistedBytes(cl_objects[h])

FailedAfterCreate == cl_st \in {"err", "panic"} /\ cl_pc > 1

\* C11 (as stated): when clone fails at a step after the destination
\* directory has been created (init, ref discovery, missing HEAD, fetch,
\* pack parse, materialization, persist), the destination directory does
\* not exist any more when the error is returned.
C11_FailedCloneRemovesDst ==
    FailedAfterCreate => Resolve(cl_dst) \notin dirs

(***************************************************************************)
(* Loose-object files whose frame declares any length, read back by the    *)
(* two loaders of the repository: Object::load of object.rs and the        *)
(* Object::load of lib.rs.                                                 *)
(***************************************************************************)
MaxDeclared == 4

\* Object::load of lib.rs: the kind is what precedes the first space, the
\* body everything after the first NUL
lib_load(hex, fs) ==
    IF ~FileExists(fs, path_from_hex(hex)) THEN [st |-> "err", obj |-> Object("blob", <<>>)]
    ELSE CHOOSE r \in
        {IF ~z.ok THEN [st |-> "err", obj |-> Object("blob", <<>>)]
         ELSE IF Position(z.data, {SP}) < 0 THEN [st |-> "err", obj |-> Object("blob", <<>>)]
         ELSE IF ~KindFromBytes(Take(z.data, Position(z.data, {SP}))).ok
         THEN [st |-> "err", obj |-> Object("blob", <<>>)]
         ELSE IF Position(z.data, {NUL}) < 0 THEN [st |-> "err", obj |-> Object("blob", <<>>)]
         ELSE [st |-> "ok",
               obj |-> Object(KindFromBytes(Take(z.data, Position(z.data, {SP}))).kind,
                              Drop(z.data, Position(z.data, {NUL}) + 1))]
         : z \in {ZlibDecode(fs[Resolve(path_from_hex(hex))])}} : TRUE

\* the decompressed stream of a loose object whose frame declares a length
LooseStream(kind, declared, body) ==
    KindName(kind) \o <<SP>> \o Decimal(declared) \o <<NUL>> \o body

LooseBodies == {<<>>, <<97>>, <<97, NUL, 98>>}

\* the name the file is stored under and asked for
LooseHex == display_hex([i \in 1..HashLen |-> 16 + i])

\* a store that holds one object file, written by any git
LooseInit ==
    /\ \E kind \in ObjectKind, declared \in 0..MaxDeclared, body \in LooseBodies :
          files = WriteFile(EmptyFs, path_from_hex(LooseHex),
                            ZlibEncode(LooseStream(kind, declared, body)))
    /\ dirs = Ancestors(Parent(path_from_hex(LooseHex)))
    /\ store_res = [op |-> "none"]

\* git::Object::load(hex) as object.rs has it
LooseLoad ==
    /\ \E r \in {load(LooseHex, files)} :
          store_res' = [op |-> "load", by |-> "object.rs", st |-> r.st, got |-> r.obj]
    /\ UNCHANGED <<files, dirs, plVars, hdVars, dlVars, pkVars, clVars, wtVars, plbVars>>

\* Object::load(hex) as lib.rs has it
LooseLoadLib ==
    /\ \E r \in {lib_load(LooseHex, files)} :
          store_res' = [op |-> "load", by |-> "lib.rs", st |-> r.st, got |-> r.obj]
    /\ UNCHANGED <<files, dirs, plVars, hdVars, dlVars, pkVars, clVars, wtVars, plbVars>>

LooseNext == LooseLoad \/ LooseLoadLib

InitLoose == LooseInit /\ IdlePl /\ IdleHd /\ IdleDl /\ IdlePk /\ IdleCl /\ IdleWt /\ IdlePlb

SpecLoose == InitLoose /\ [][LooseNext]_vars

\* the decompressed stream of the object file, and what follows its first NUL
StoredStream == ZlibDecode(files[Resolve(path_from_hex(LooseHex))]).data
AfterFirstNul == Drop(StoredStream, Position(StoredStream, {NUL}) + 1)

\* C12 (as stated): loading a loose object succeeds and yields as body all
\* the bytes that follow the first NUL of the decompressed stream, whatever
\* length the frame declares, be it larger or smaller than the number of
\* bytes that remain.
C12_BodyIsRestAfterNul ==
    store_res.op = "load" =>
        /\ store_res.st = "ok"
        /\ store_res.got.body = AfterFirstNul

(***************************************************************************)
(* The commit builder (main.rs, commit_tree and the CommitTree command).   *)
(***************************************************************************)
MaxParents == 2
\* commits a run of the model builds
MaxBuilt == 1

\* "ArshiAAkhavan <letmemakenewone@gmail.com>"
AUTHOR_NAME ==
    <<65, 114, 115, 104, 105, 65, 65, 107, 104, 97, 118, 97, 110, 32, 60, 108,
      101, 116, 109, 101, 109, 97, 107, 101, 110, 101, 119, 111, 110, 101, 64, 103,
      109, 97, 105, 108, 46, 99, 111, 109, 62>>
COMMITER_NAME == AUTHOR_NAME
AUTHOR == <<97, 117, 116, 104, 111, 114>>
COMMITTER == <<99, 111, 109, 109, 105, 116, 116, 101, 114>>
\* " -0500"
ZONE == <<32, 45, 48, 53, 48, 48>>

\* the String commit_tree assembles with writeln!
CommitContent(parent, message, tree, time_millis) ==
    KindName("tree") \o <<SP>> \o tree \o <<LF>>
    \o PARENT \o <<SP>> \o parent \o <<LF>>
    \o AUTHOR \o <<SP>> \o AUTHOR_NAME \o <<SP>> \o Decimal(time_millis) \o ZONE \o <<LF>>
    \o COMMITTER \o <<SP>> \o COMMITER_NAME \o <<SP>> \o Decimal(time_millis) \o ZONE \o <<LF>>
    \o <<LF>> \o message \o <<LF>>

\* commit_tree: the commit is persisted into ./.git/objects, its hash returned
commit_tree(parent, message, tree, time_millis, fs, ds) ==
    CHOOSE r \in
        {[st |-> "ok", hash |-> w.hash, body |-> commit.body, files |-> w.files, dirs |-> w.dirs]
         : commit \in {Object("commit", CommitContent(parent, message, tree, time_millis))},
           w \in {persist(Object("commit", CommitContent(parent, message, tree, time_millis)),
                          fs, ds, TRUE)}} : TRUE

\* The CommitTree command: parent is a String field with #[clap(short)], so
\* the command line must give -p exactly once; with none or with several
\* the arguments are rejected and commit_tree is not called.
CommitTreeCmd(parents, message, tree, time_millis, fs, ds) ==
    IF Len(parents) # 1
    THEN [st |-> "usage", hash |-> <<>>, body |-> <<>>, files |-> fs, dirs |-> ds]
    ELSE commit_tree(parents[1], message, tree, time_millis, fs, ds)

\* what the command line gives: -p values, -m values, the tree, and the clock
CtParents == {<<>>, display_hex([i \in 1..HashLen |-> i])}
CtMessages == {<<109>>, <<112, 97, 114, 101, 110, 116, SP, 120, LF, 109>>}
CtTrees == {display_hex([i \in 1..HashLen |-> 255 - i])}
CtMillis == {0, 1700000123}

CtInit == files = EmptyFs /\ dirs = {} /\ store_res = [op |-> "none"]

CommitTree(parents, message, tree, time_millis) ==
    /\ \E r \in {CommitTreeCmd(parents, message, tree, time_millis, files, dirs)} :
          /\ Cardinality(DOMAIN r.files) <= MaxBuilt
          /\ files' = r.files
          /\ dirs' = r.dirs
          /\ store_res' = [op |-> "commit_tree", parents |-> parents, tree |-> tree,
                           message |-> message, time_millis |-> time_millis,
                           st |-> r.st, hash |-> r.hash, body |-> r.body]
    /\ UNCHANGED <<plVars, hdVars, dlVars, pkVars, clVars, wtVars, plbVars>>

CommitNext ==
    \E parents \in SeqsUpTo(CtParents, MaxParents), message \in CtMessages,
       tree \in CtTrees, time_millis \in CtMillis :
        CommitTree(parents, message, tree, time_millis)

InitCommit == CtInit /\ IdlePl /\ IdleHd /\ IdleDl /\ IdlePk /\ IdleCl /\ IdleWt /\ IdlePlb

SpecCommit == InitCommit /\ [][CommitNext]_vars

\* the lines of a commit body before its first blank line
HeaderLines(body) ==
    LET ls == Lines(body)
        blank == {i \in 1..Len(ls) : ls[i] = <<>>}
    IN  IF blank = {} THEN ls
        ELSE Take(ls, (CHOOSE i \in blank : \A j \in blank : i <= j) - 1)

StartsWith(line, prefix) == Len(line) >= Len(prefix) /\ Take(line, Len(prefix)) = prefix

\* C13 (as stated): the commit builder, given any list of parents, builds a
\* commit whose header is the tree line, then one line parent <hex> per
\* parent supplied, in the order supplied (none for an initial commit), then
\* the author line.
C13_ParentLinePerParent ==
    store_res.op = "commit_tree" =>
        /\ store_res.st = "ok"
        /\ LET h == HeaderLines(store_res.body)
               n == Len(store_res.parents)
           IN  /\ Len(h) = n + 3
               /\ h[1] = KindName("tree") \o <<SP>> \o store_res.tree
               /\ \A i \in 1..n : h[1 + i] = PARENT \o <<SP>> \o store_res.parents[i]
               /\ StartsWith(h[n + 2], AUTHOR \o <<SP>>)

(***************************************************************************)
(* The working-tree snapshot (main.rs, write_tree and hash_object).  The   *)
(* working directory is wt_dir: whether read_dir can read it, and its      *)
(* entries in the order read_dir yields them.  An entry has a name, a      *)
(* type, the st_mode of its metadata, the bytes File::open reads from it,  *)
(* the listing under it when it is a directory, and the system call that   *)
(* fails on it: "entry" (read_dir yields an Err in its place), "metadata"  *)
(* (DirEntry::metadata) or "open" (File::open), or "none".                 *)
(***************************************************************************)
\* format!("{:o}", n)
RECURSIVE Octal(_)
Octal(n) == IF n < 8 THEN <<48 + n>> ELSE Octal(n \div 8) \o <<48 + (n % 8)>>

S_IFDIR == 16384
S_IFLNK == 40960
S_IFREG == 32768

\* a < b for byte strings, as Ord for OsString compares them
RECURSIVE LexLess(_, _)
LexLess(a, b) ==
    IF b = <<>> THEN FALSE
    ELSE IF a = <<>> THEN TRUE
    ELSE IF a[1] # b[1] THEN a[1] < b[1]
    ELSE LexLess(Drop(a, 1), Drop(b, 1))

\* entries.sort_by_key(|e| e.file_name()): stable, by name
RECURSIVE SortByName(_)
SortByName(entries) ==
    IF entries = <<>> THEN <<>>
    ELSE LET rest == SortByName(Drop(entries, 1))
             before == SelectSeq(rest, LAMBDA x : LexLess(x.name, entries[1].name))
             after == SelectSeq(rest, LAMBDA x : ~LexLess(x.name, entries[1].name))
         IN  before \o <<entries[1]>> \o after

\* .filter_map(|e| e.ok()): the entries read_dir yields without an error;
\* the mutant keeps them all
ListedAll(dir) == dir.entries

Listed(dir) == SelectSeq(dir.entries, LAMBDA x : x.fault # "entry")

\* format!("{mode:o} {name}\0") followed by the hash; the mutant leaves
\* the NUL out
EmitNodeNoNul(node) == Octal(node.mode) \o <<SP>> \o node.name \o node.hash

EmitNode(node) == Octal(node.mode) \o <<SP>> \o node.name \o <<NUL>> \o node.hash

\* buf once every node has been appended
RECURSIVE EmitTree(_)
EmitTree(nodes) ==
    IF nodes = <<>> THEN <<>> ELSE EmitNode(nodes[1]) \o EmitTree(Drop(nodes, 1))

\* hash_object(true, path): the blob of what File::open reads, persisted
hash_object(entry, fs, ds) ==
    IF entry.fault = "open" THEN [st |-> "err", hash |-> <<>>, files |-> fs, dirs |-> ds]
    ELSE CHOOSE r \in
        {[st |-> "ok", hash |-> w.hash, files |-> w.files, dirs |-> w.dirs]
         : w \in {persist(Object("blob", entry.body), fs, ds, TRUE)}} : TRUE

RECURSIVE write_tree(_, _, _)
RECURSIVE WtLoop(_, _, _, _)

\* The for loop of write_tree over the sorted entries; nodes are the
\* (mode, name, hash) appended to buf so far.
WtLoop(entries, nodes, fs, ds) ==
    IF entries = <<>> THEN [st |-> "ok", nodes |-> nodes, files |-> fs, dirs |-> ds]
    ELSE IF entries[1].fault = "metadata"
    THEN [st |-> "err", nodes |-> nodes, files |-> fs, dirs |-> ds]
    ELSE IF entries[1].name = DOT_GIT THEN WtLoop(Drop(entries, 1), nodes, fs, ds)
    ELSE CHOOSE q \in
        {IF r.st # "ok" THEN [st |-> "err", nodes |-> nodes, files |-> r.files, dirs |-> r.dirs]
         ELSE WtLoop(Drop(entries, 1),
                     Append(nodes, [mode |-> IF entries[1].type = "dir" THEN S_IFDIR
                                             ELSE IF entries[1].type = "file" THEN entries[1].mode
                                             ELSE S_IFLNK,
                                    name |-> entries[1].name,
                                    hash |-> r.hash]),
                     r.files, r.dirs)
         : r \in {IF entries[1].type = "dir"
                  THEN write_tree(entries[1].dir, fs, ds)
                  ELSE hash_object(entries[1], fs, ds)}} : TRUE

\* write_tree(path) on the directory at path
write_tree(dir, fs, ds) ==
    IF ~dir.readable
    THEN [st |-> "err", hash |-> <<>>, nodes |-> <<>>, files |-> fs, dirs |-> ds]
    ELSE CHOOSE q \in
        {IF l.st # "ok"
         THEN [st |-> "err", hash |-> <<>>, nodes |-> l.nodes, files |-> l.files, dirs |-> l.dirs]
         ELSE CHOOSE t \in
             {[st |-> "ok", hash |-> w.hash, nodes |-> l.nodes, files |-> w.files, dirs |-> w.dirs]
              : w \in {persist(Object("tree", EmitTree(l.nodes)), l.files, l.dirs, TRUE)}} : TRUE
         : l \in {WtLoop(SortByName(Listed(dir)), <<>>, fs, ds)}} : TRUE

(***************************************************************************)
(* The working directories a snapshot is taken of.                         *)
(***************************************************************************)
Listing(readable, entries) == [readable |-> readable, entries |-> entries]

NoListing == Listing(TRUE, <<>>)

FileEntry(name, mode, body, fault) ==
    [name |-> name, type |-> "file", mode |-> mode, body |-> body, dir |-> NoListing,
     fault |-> fault]

LinkEntry(name, body) ==
    [name |-> name, type |-> "symlink", mode |-> S_IFLNK + 511, body |-> body,
     dir |-> NoListing, fault |-> "none"]

DirEntry(name, dir) ==
    [name |-> name, type |-> "dir", mode |-> S_IFDIR + 493, body |-> <<>>, dir |-> dir,
     fault |-> "none"]

Faults == {"none", "entry", "metadata", "open"}

\* what may stand in the directory under each name: nothing, or an entry
EntriesA == {<<>>} \cup {<<FileEntry(<<97>>, S_IFREG + 420, <<120>>, f)>> : f \in Faults}
EntriesB ==
    {<<>>, <<FileEntry(<<98, SP, 99>>, S_IFREG + 493, <<121, LF>>, "none")>>,
     <<FileEntry(<<98, SP, 99>>, S_IFREG + 436, <<121, LF>>, "none")>>}
EntriesD ==
    {<<>>,
     <<DirEntry(DIR_D, Listing(TRUE, <<FileEntry(<<99>>, S_IFREG + 420, <<120>>, "none")>>))>>,
     <<DirEntry(DIR_D, Listing(FALSE, <<>>))>>,
     <<DirEntry(DIR_D, Listing(TRUE, <<FileEntry(<<99>>, S_IFREG + 420, <<120>>, "open")>>))>>}
EntriesGit == {<<>>, <<DirEntry(DOT_GIT, Listing(TRUE, <<>>))>>}
EntriesL == {<<>>, <<LinkEntry(<<108>>, <<120>>)>>}

WorkDirs ==
    {Listing(readable, IF sorted THEN g \o a \o b \o d \o l ELSE l \o d \o b \o a \o g)
     : readable \in BOOLEAN, sorted \in BOOLEAN,
       a \in EntriesA, b \in EntriesB, d \in EntriesD, g \in EntriesGit, l \in EntriesL}

WtInit ==
    /\ wt_dir \in WorkDirs
    /\ files = EmptyFs
    /\ dirs = {}
    /\ store_res = [op |-> "none"]

\* GitCmd::WriteTree: write_tree(".")
WriteTree ==
    /\ store_res.op = "none"
    /\ \E r \in {write_tree(wt_dir, files, dirs)} :
          /\ files' = r.files
          /\ dirs' = r.dirs
          /\ store_res' = [op |-> "write_tree", st |-> r.st, hash |-> r.hash, nodes |-> r.nodes]
    /\ UNCHANGED <<wt_dir, plVars, hdVars, dlVars, pkVars, clVars, plbVars>>

WtNext == WriteTree

InitTree == WtInit /\ IdlePl /\ IdleHd /\ IdleDl /\ IdlePk /\ IdleCl /\ IdlePlb

SpecTree == InitTree /\ [][WtNext]_vars

(***************************************************************************)
(* Claims about the snapshot.                                              *)
(***************************************************************************)
\* the entries of dir a snapshot is made of when the entries with a fault
\* in skipped are passed over: in name order, .git left out
Kept(dir, skipped) ==
    SortByName(SelectSeq(dir.entries, LAMBDA x : x.fault \notin skipped /\ x.name # DOT_GIT))

\* the tree object of dir made of those entries
RECURSIVE TreeObjectOf(_, _)
TreeObjectOf(dir, skipped) ==
    TreeOf([i \in 1..Len(Kept(dir, skipped)) |->
              LET x == Kept(dir, skipped)[i]
              IN  CASE x.type = "dir" ->
                         TreeEntry(MODE_DIR, x.name, TreeObjectOf(x.dir, skipped))
                    [] x.type = "symlink" ->
                         TreeEntry(MODE_SYMLINK, x.name, Object("blob", x.body))
                    [] OTHER -> TreeEntry(Octal(x.mode), x.name, Object("blob", x.body))])

\* dir, or a directory under it that the snapshot goes into, cannot be read
RECURSIVE Unreadable(_, _)
Unreadable(dir, skipped) ==
    \/ ~dir.readable
    \/ \E i \in 1..Len(Kept(dir, skipped)) :
          Kept(dir, skipped)[i].type = "dir" /\ Unreadable(Kept(dir, skipped)[i].dir, skipped)

RECURSIVE SnapshotFails(_)
SnapshotFails(dir) ==
    \/ ~dir.readable
    \/ \E i \in 1..Len(dir.entries) :
          LET x == dir.entries[i]
          IN  /\ x.fault # "entry"
              /\ \/ x.fault = "metadata"
                 \/ x.name # DOT_GIT /\ x.type = "dir" /\ SnapshotFails(x.dir)
                 \/ x.name # DOT_GIT /\ x.type # "dir" /\ x.fault = "open"

CanonicalModes == {MODE_DIR, MODE_SYMLINK, MODE_FILE, MODE_EXEC}
KindOfMode(mode) ==
    IF mode = MODE_DIR THEN "Dir" ELSE IF mode = MODE_SYMLINK THEN "SymLink" ELSE "File"

\* C15: when every node write_tree emitted has a canonical mode (40000,
\* 100644, 100755, 120000), parsing the emitted body gives the same nodes
\* back: as many, in the same order, each with its name, its hash and the
\* node kind of its mode; a body of no node parses to no node.
C15_TreeRoundTrip ==
    (/\ store_res.op = "write_tree"
     /\ store_res.st = "ok"
     /\ \A i \in 1..Len(store_res.nodes) : Octal(store_res.nodes[i].mode) \in CanonicalModes)
    => LET t == Tree_try_from(Object("tree", EmitTree(store_res.nodes)))
       IN  /\ t.st = "ok"
           /\ Len(t.nodes) = Len(store_res.nodes)
           /\ \A i \in 1..Len(t.nodes) :
                 /\ t.nodes[i].name = store_res.nodes[i].name
                 /\ t.nodes[i].hash = store_res.nodes[i].hash
                 /\ t.nodes[i].mode = Octal(store_res.nodes[i].mode)
                 /\ t.nodes[i].kind = KindOfMode(Octal(store_res.nodes[i].mode))

\* C15 witness: a tree of four nodes was emitted, a directory, a link, a
\* file and an executable whose name has a space in it.
C15_Witness ==
    /\ store_res.op = "write_tree"
    /\ store_res.st = "ok"
    /\ Len(store_res.nodes) = 4
    /\ {Octal(store_res.nodes[i].mode) : i \in 1..4} = CanonicalModes

(***************************************************************************)
(* The want request (packet.rs, PacketLineBuilder; main.rs, fetch_objects).*)
(***************************************************************************)
MaxWants == 3

WANT == <<119, 97, 110, 116, SP>>
FLUSH == <<48, 48, 48, 48>>
DONE == <<48, 48, 48, 57, 100, 111, 110, 101>>

\* writeln!(data, "{:04x}want {hex}", 4 + 5 + hex.len() + 1); the mutant
\* leaves the line feed out of the count
WantLineUncounted(hex) == Hex4(4 + 5 + Len(hex)) \o WANT \o hex \o <<LF>>

WantLine(hex) == Hex4(4 + 5 + Len(hex) + 1) \o WANT \o hex \o <<LF>>

\* PacketLineBuilder::build: data after the for loop, the write! of the
\* flush and the writeln! of done
RECURSIVE WantLines(_)
WantLines(wants) ==
    IF wants = <<>> THEN <<>> ELSE WantLine(wants[1]) \o WantLines(Drop(wants, 1))

build(wants) == WantLines(wants) \o FLUSH \o DONE \o <<LF>>

\* the hashes fetch_refs hands over (40 bytes each), and a shorter string
WantHexes ==
    {display_hex(hash(BlobN(1))), display_hex(hash(BlobN(2))),
     display_hex(hash(TreeN(1))), <<97, 98, 99>>}

PlbInit == plb_wants = <<>> /\ plb_data = <<>> /\ plb_pc = "new"

\* plb.want(hash) in the loop of fetch_objects
Want(hex) ==
    /\ plb_pc = "new"
    /\ Len(plb_wants) < MaxWants
    /\ plb_wants' = Append(plb_wants, hex)
    /\ UNCHANGED <<plb_data, plb_pc, fsVars, plVars, hdVars, dlVars, pkVars, clVars, wtVars>>

\* plb.build()
Build ==
    /\ plb_pc = "new"
    /\ plb_data' = build(plb_wants)
    /\ plb_pc' = "built"
    /\ UNCHANGED <<plb_wants, fsVars, plVars, hdVars, dlVars, pkVars, clVars, wtVars>>

WantNext ==
    \/ \E hex \in WantHexes : Want(hex)
    \/ Build

InitWant == PlbInit /\ IdleFs /\ IdlePl /\ IdleHd /\ IdleDl /\ IdlePk /\ IdleCl /\ IdleWt

SpecWant == InitWant /\ [][WantNext]_vars

\* the request body the protocol asks for, for wants of 40 characters
RECURSIVE WantRequest(_)
WantRequest(wants) ==
    IF wants = <<>> THEN <<48, 48, 48, 48, 48, 48, 48, 57, 100, 111, 110, 101, 10>>
    ELSE <<48, 48, 51, 50, 119, 97, 110, 116, 32>> \o wants[1] \o <<10>>
         \o WantRequest(Drop(wants, 1))

\* C16: the body build returns for wants of 40 characters each is, per
\* want in the order added, 0032want <hex40> LF, then 0000, then 0009done
\* LF, and nothing else; for no want it is 0000 0009done LF.
C16_WantRequestBody ==
    (plb_pc = "built" /\ \A i \in 1..Len(plb_wants) : Len(plb_wants[i]) = 40)
    => plb_data = WantRequest(plb_wants)

\* C16 witness: a request was built for three wants, not all the same.
C16_Witness ==
    /\ plb_pc = "built"
    /\ Len(plb_wants) = MaxWants
    /\ \A i \in 1..Len(plb_wants) : Len(plb_wants[i]) = 40
    /\ plb_wants[1] # plb_wants[2]
    /\ plb_data = WantRequest(plb_wants)

(***************************************************************************)
(* Claims about what a materialization reads of a commit.                  *)
(***************************************************************************)
\* the lines of a commit body before its first blank line, each with its
\* line feed
HeaderOf(body) ==
    LET ls == Lines(body)
        blanks == {i \in 1..Len(ls) : ls[i] = <<>>}
    IN  IF blanks = {} THEN body
        ELSE Concat([i \in 1..((CHOOSE i \in blanks : \A j \in blanks : i <= j) - 1) |->
                        ls[i] \o <<LF>>])

HeaderOnly(obj) == IF obj.kind = "commit" THEN Object("commit", HeaderOf(obj.body)) ELSE obj

\* the unpacked objects, every commit cut down to its header
HeaderOnlyObjects(objects) == [h \in DOMAIN objects |-> HeaderOnly(objects[h])]

\* the store of the working directory with the same cut made in the commits
\* persisted there
HeaderOnlyStore(fs, objects) ==
    [p \in DOMAIN fs |->
        IF \E h \in DOMAIN objects : p = Resolve(path(h)) /\ objects[h].kind = "commit"
        THEN PersistedBytes(HeaderOnly(objects[CHOOSE h \in DOMAIN objects : p = Resolve(path(h))]))
        ELSE fs[p]]

\* the files that are not inside a .git directory
WorkingFiles(fs) ==
    [p \in {q \in DOMAIN fs : \A i \in 1..Len(q) : q[i] # DOT_GIT} |-> fs[p]]

\* C17: a materialization ends as it would if every commit had only its
\* header lines: the message lines make no file, no directory and no
\* failure.  For build_from_head the objects are those of the packet, for
\* rebuild_directory_from_head those persisted in the working directory.
C17_MessageLinesNotInterpreted ==
    [][/\ AtStep("build") =>
            \E r \in {build_from_head(cl_head, cl_dst, HeaderOnlyObjects(cl_objects),
                                      [files |-> files, dirs |-> dirs])} :
               /\ files' = r.files
               /\ dirs' = r.dirs
               /\ cl_st' = (IF r.st = "ok" THEN "run" ELSE r.st)
       /\ AtStep("rebuild") =>
            \E r \in {rebuild_directory_from_head(
                          cl_head, cl_dst,
                          [files |-> HeaderOnlyStore(files, cl_objects), dirs |-> dirs])} :
               /\ WorkingFiles(files') = WorkingFiles(r.files)
               /\ dirs' = r.dirs
               /\ cl_st' = (IF r.st = "ok" THEN "run" ELSE r.st)]_vars

(***************************************************************************)
(* Claims about the files a materialization leaves.                        *)
(***************************************************************************)
\* the tree named by the tree line of the commit head_hash
TipTree(objects, head_hash) ==
    hex_to_array(SplitOnce(Lines(objects[hex_to_array(head_hash).array].body)[1]).tail).array

\* the files of the tree h placed under dir: pairs of path and blob body
RECURSIVE TreeFiles(_, _, _)
TreeFiles(objects, h, dir) ==
    LET nodes == Tree_try_from(objects[h]).nodes
    IN  UNION {IF nodes[i].kind = "Dir"
               THEN TreeFiles(objects, nodes[i].hash, Join(dir, <<nodes[i].name>>))
               ELSE {<<Join(dir, <<nodes[i].name>>), objects[nodes[i].hash].body>>}
               : i \in 1..Len(nodes)}

\* the materialization step of the clone has returned Ok
Materialized == cl_st \in {"run", "ok"} /\ cl_pc > MaterializeAt(cl_driver)

\* C18: once a commit has been materialized into a destination that held
\* no working file, every file of the tip commit's own tree is there with
\* the body of the tip's blob, whatever its ancestors have at that path.
C18_TipFilesWin ==
    Materialized =>
        \A f \in TreeFiles(cl_objects, TipTree(cl_objects, cl_head), cl_dst) :
            FileExists(files, f[1]) /\ files[Resolve(f[1])] = f[2]

\* C18 witness: the tip of a history of two commits was materialized by
\* main.rs; its tree has f = "2\n" where its parent's has f = "1\n".
C18_Witness ==
    /\ Materialized
    /\ cl_driver = "main"
    /\ hex_to_array(cl_head).array = hash(CommitN(2))
    /\ hash(CommitN(1)) \in DOMAIN cl_objects
    /\ files[Resolve(Join(cl_dst, <<FILE_F>>))] = BlobN(2).body
    /\ BlobN(1).body # BlobN(2).body

====
